---- MODULE Spec2Model ----
(***************************************************************************)
(* Model of the sector -> OTBM converter (sec_to_otbm.py), the OTB escape  *)
(* helper (generate_rme_data.py) and the reader's escape handling          *)
(* (otbm_to_sec.py).                                                       *)
(*                                                                         *)
(* The module holds one state machine per component, each with its own     *)
(* variables and its own specification:                                    *)
(*   SpecCodec  OTBMWriter: write_byte .. end_node on one buffer           *)
(*   SpecItem   _append_item_from_spec key loop + _write_otbm_item_recursive*)
(*   SpecStack  _sort_tile_items_by_priority + the reversal of the writer  *)
(*   SpecMap    convert_map_to_otbm: grouping into areas, writing, closing *)
(*   SpecSpawn  generate_spawns_xml: monster regions, then NPCs            *)
(* A specification leaves the variables of the other components at their   *)
(* idle values.                                                            *)
(*                                                                         *)
(* Python values are modelled as follows: a byte buffer is a sequence of   *)
(* integers 0..255; an optional field (dict key absent / None) is the      *)
(* empty sequence and a present one a one-element sequence; Python's       *)
(* 0-based positions are kept (data[pos] is data[pos + 1] here).           *)
(***************************************************************************)
EXTENDS Integers, Sequences, FiniteSets, TLC

VARIABLES
    \* SpecCodec: one OTBMWriter and the calls made on it
    data,        \* OTBMWriter.data
    marks,       \* positions (1-based) where start_node/end_node appended a marker
    payload,     \* the bytes handed to write_byte so far, in call order
    ncalls,      \* number of writer calls made
    \* SpecItem: one item spec being parsed and written
    item_data,   \* the dict built by _append_item_from_spec
    log,         \* the type names that occur in _debug_attributes_entries
    iparts,      \* number of Key=Value parts consumed
    part,        \* the Key=Value part consumed last: <<>> or <<key, value>>
    ipc,         \* "parse" | "written" | "crashed"
    ibuf,        \* the writer buffer after _write_otbm_item_recursive
    \* SpecStack: one tile's item list and its normalisation
    tile_items,  \* the tile's input list L (type ids, .sec order)
    table,       \* item_stack_priority: <<>> for None, else <<function id -> priority>>
    written,     \* items_to_write of the tile, once computed
    spc,         \* "collect" | "done"
    \* SpecMap: convert_map_to_otbm
    sectors,     \* the tile entries of the sectors dict, in sectors.items() order
    towns,       \* the towns list
    areas,       \* the areas dict: (area_x, area_y, z) -> list of tile records
    tilelog,     \* for each tile node of the file, in file order, the position in
                 \* sectors of the tile entry it was written from
    mpc,         \* "load" | "nofile" | "done" | "crashed"
    file,        \* the bytes of the output file, <<>> while there is none
    \* SpecSpawn: generate_spawns_xml
    walkable_tiles,
    global_used_tiles,
    global_spawn_centers,
    spawns,      \* emitted <spawn> elements, in output order
    phase,       \* "monsters" | "npcs" | "done"
    nmon,        \* monster.db lines processed
    nnpc,        \* NPC spawns processed
    \* SpecUnpack: one call of _unpack_absolute_coordinate
    packed,      \* the argument as <<q, r>>: the Python int q * 65536 + r, r in 0..65535
    unpacked,    \* the returned (x, y, z), <<>> before the call
    upc,         \* "start" | "done"
    \* sec_to_otbm.main: the game data folder, the load phase and the exit
    game,        \* the game data folder: which paths exist, the sector files, houses.dat
    sec_loaded,  \* sectors: sequence of <<key, tiles>> in load order
    sec_idx,     \* load_all_sectors: index of the next sector file
    houses_out,  \* parse_houses_dat: houses
    house_cur,   \* parse_houses_dat: house, <<>> outside a block
    house_i,     \* parse_houses_dat: i (1-based)
    otbm_out,    \* the written map: <<>> or <<[tiles, houses, sorted]>>
    exit_code,   \* <<>> while running, <<n>> once the process has ended
    mainpc,      \* position in main
    \* otbm_to_sec.convert_otbm_to_secs: the node-tree reader
    rmap,        \* the map and the damage the input file was made from
    otbm,        \* data: the bytes of the input file
    ri,          \* i
    rdepth,      \* depth
    current_area, \* <<>> while unbound, else <<[base_x, base_y, z]>> with optional values
    tile_stack,  \* tile_stack
    buckets,     \* buckets: the sector records in the order they are appended
    invalid_unique, \* invalid_unique: set of optional ids, <<>> standing for None
    rpc,         \* position in convert_otbm_to_secs
    \* generate_rme_data.generate_items_otb: one catalog entry and its node
    otb_item,    \* item: the catalog entry, <<>> before one is chosen
    otb_node,    \* the bytes appended to data for the entry
    otbpc,       \* position in the item loop
    \* generate_rme_data: the catalog, the parsed items and the items.otb file
    catalog,     \* objects.srv as the sequence of its TypeID blocks
    cat_i,       \* parse_objects_srv: number of blocks read
    otb_items,   \* items: the dict from type id to entry
    otb_data,    \* the bytes written to items.otb
    filepc,      \* position in the generator
    \* the Content={...} parser: one content list, its parsed items, their nodes
    sec_specs,   \* the item specs the content list is made of
    content_str, \* the text between the braces of the tile Content={...}
    content_items, \* the list _parse_sec_content_list returns
    content_buf, \* the Item nodes the writer emits for the list
    contentpc,   \* "start", "parsed", "written"
    \* SpecTowns: the Hometeleporters lines read so far, map.dat, the towns
    home_lines,  \* the lines of the Hometeleporters section read so far
    temples,     \* the dict parse_temples_from_moveuse builds
    map_dat,     \* the Depot and Mark lines of map.dat
    town_list,   \* the list parse_map_dat returns
    townpc       \* "moveuse", "done"

codecVars == <<data, marks, payload, ncalls>>
itemVars  == <<item_data, log, iparts, part, ipc, ibuf>>
stackVars == <<tile_items, table, written, spc>>
mapVars   == <<sectors, towns, areas, tilelog, mpc, file>>
spawnVars == <<walkable_tiles, global_used_tiles, global_spawn_centers, spawns,
               phase, nmon, nnpc>>
unpackVars == <<packed, unpacked, upc>>
mainVars == <<game, sec_loaded, sec_idx, houses_out, house_cur, house_i, otbm_out, exit_code, mainpc>>
readerVars == <<rmap, otbm, ri, rdepth, current_area, tile_stack, buckets, invalid_unique, rpc>>
otbVars == <<otb_item, otb_node, otbpc>>
otbFileVars == <<catalog, cat_i, otb_items, otb_data, filepc>>
contentVars == <<sec_specs, content_str, content_items, content_buf, contentpc>>
townsVars == <<home_lines, temples, map_dat, town_list, townpc>>
vars == <<codecVars, itemVars, stackVars, mapVars, spawnVars,
         unpackVars,
         mainVars,
         readerVars,
         otbVars,
         otbFileVars,
         contentVars,
         townsVars>>

IdleCodec == data = <<>> /\ marks = {} /\ payload = <<>> /\ ncalls = 0
IdleItem  == /\ item_data = <<>> /\ log = {} /\ iparts = 0 /\ part = <<>>
             /\ ipc = "idle" /\ ibuf = <<>>
IdleStack == tile_items = <<>> /\ table = <<>> /\ written = <<>> /\ spc = "idle"
IdleMap   == /\ sectors = <<>> /\ towns = <<>> /\ areas = <<>> /\ tilelog = <<>>
             /\ mpc = "idle" /\ file = <<>>
IdleSpawn == /\ walkable_tiles = {} /\ global_used_tiles = {}
             /\ global_spawn_centers = {} /\ spawns = <<>>
             /\ phase = "idle" /\ nmon = 0 /\ nnpc = 0

IdleUnpack == packed = <<>> /\ unpacked = <<>> /\ upc = "idle"

IdleMain == game = <<>> /\ sec_loaded = <<>> /\ sec_idx = 0 /\ houses_out = <<>> /\ house_cur = <<>> /\ house_i = 0 /\ otbm_out = <<>> /\ exit_code = <<>> /\ mainpc = "idle"

IdleReader == rmap = <<>> /\ otbm = <<>> /\ ri = 0 /\ rdepth = 0 /\ current_area = <<>> /\ tile_stack = <<>> /\ buckets = <<>> /\ invalid_unique = {} /\ rpc = "idle"

IdleOtb == otb_item = <<>> /\ otb_node = <<>> /\ otbpc = "idle"

IdleOtbFile == catalog = <<>> /\ cat_i = 0 /\ otb_items = <<>> /\ otb_data = <<>> /\ filepc = "idle"

IdleContent == sec_specs = <<>> /\ content_str = <<>> /\ content_items = <<>> /\ content_buf = <<>> /\ contentpc = "idle"

IdleTowns == home_lines = <<>> /\ temples = <<>> /\ map_dat = <<>> /\ town_list = <<>> /\ townpc = "idle"

(***************************************************************************)
(* Generic helpers                                                         *)
(***************************************************************************)
Min(a, b) == IF a < b THEN a ELSE b
Max(a, b) == IF a > b THEN a ELSE b
Abs(a) == IF a < 0 THEN -a ELSE a
Range(s) == {s[i] : i \in 1..Len(s)}

RECURSIVE Reverse(_)
Reverse(s) == IF s = <<>> THEN <<>> ELSE Append(Reverse(Tail(s)), Head(s))

\* Python's val & 0xFF and (val >> n) & 0xFF on an int of any sign
Byte0(val) == val % 256
Byte1(val) == (val \div 256) % 256
Byte2(val) == (val \div 65536) % 256
Byte3(val) == (val \div 16777216) % 256

(***************************************************************************)
(* Node-tree codec: constants and OTBMWriter (sec_to_otbm.py)              *)
(***************************************************************************)
SECTOR_SIZE == 32
NODE_ESC  == 253
NODE_INIT == 254
NODE_TERM == 255

Special == {NODE_ESC, NODE_INIT, NODE_TERM}

\* write_byte escaping the two node markers but not the escape byte itself
write_byte_markers_only(d, b) ==
    IF b \in {NODE_INIT, NODE_TERM} THEN d \o <<NODE_ESC, b>> ELSE Append(d, b)

\* OTBMWriter.write_byte
write_byte(d, b) ==
    IF b \in {NODE_ESC, NODE_INIT, NODE_TERM} THEN d \o <<NODE_ESC, b>> ELSE Append(d, b)

\* OTBMWriter.write_uint16
write_uint16(d, val) == write_byte(write_byte(d, Byte0(val)), Byte1(val))

\* OTBMWriter.write_uint32
write_uint32(d, val) ==
    write_byte(write_byte(write_byte(write_byte(d, Byte0(val)), Byte1(val)), Byte2(val)), Byte3(val))

RECURSIVE write_bytes(_, _)
\* the loop "for b in encoded: self.write_byte(b)"
write_bytes(d, bs) == IF bs = <<>> THEN d ELSE write_bytes(write_byte(d, Head(bs)), Tail(bs))

\* OTBMWriter.write_string; s is the latin-1 encoding of the string
write_string(d, s) == write_bytes(write_uint16(d, Len(s)), s)

\* OTBMWriter.start_node
start_node(d, node_type) == write_byte(Append(d, NODE_INIT), node_type)

\* OTBMWriter.end_node
end_node(d) == Append(d, NODE_TERM)

RECURSIVE escape_otb_data(_)
\* generate_rme_data.escape_otb_data
escape_otb_data(bs) ==
    IF bs = <<>> THEN <<>>
    ELSE (IF Head(bs) \in {253, 254, 255} THEN <<253, Head(bs)>> ELSE <<Head(bs)>>)
         \o escape_otb_data(Tail(bs))

\* otbm_to_sec.read_byte_escape: <<b, pos>>; b = <<>> stands for None
read_byte_escape(d, pos) ==
    IF pos >= Len(d) THEN <<<<>>, pos>>
    ELSE IF d[pos + 1] = NODE_ESC /\ pos + 1 < Len(d)
         THEN <<<<d[pos + 2]>>, pos + 2>>
         ELSE <<<<d[pos + 1]>>, pos + 1>>

(***************************************************************************)
(* SpecCodec: any sequence of calls on one OTBMWriter                      *)
(***************************************************************************)
MaxCalls == 3

SampleBytes   == {0, 65, 253, 254, 255}
SampleUint16  == {253, 65279, 70000}
SampleUint32  == {100, 16711935}
SampleStrings == {<<>>, <<253, 116>>}
SampleTags    == {0, 6, 254}

notCodec == <<itemVars, stackVars, mapVars, spawnVars, unpackVars, mainVars, readerVars, otbVars, otbFileVars, contentVars, townsVars>>

InitCodec ==
    /\ data = <<>> /\ marks = {} /\ payload = <<>> /\ ncalls = 0
    /\ IdleItem /\ IdleStack /\ IdleMap /\ IdleSpawn /\ IdleUnpack /\ IdleMain /\ IdleReader /\ IdleOtb /\ IdleOtbFile /\ IdleContent /\ IdleTowns

CallWriteByte ==
    \E b \in SampleBytes :
        /\ ncalls < MaxCalls
        /\ data' = write_byte(data, b)
        /\ payload' = Append(payload, b)
        /\ ncalls' = ncalls + 1
        /\ UNCHANGED <<marks, notCodec>>

CallWriteUint16 ==
    \E val \in SampleUint16 :
        /\ ncalls < MaxCalls
        /\ data' = write_uint16(data, val)
        /\ payload' = payload \o <<Byte0(val), Byte1(val)>>
        /\ ncalls' = ncalls + 1
        /\ UNCHANGED <<marks, notCodec>>

CallWriteUint32 ==
    \E val \in SampleUint32 :
        /\ ncalls < MaxCalls
        /\ data' = write_uint32(data, val)
        /\ payload' = payload \o <<Byte0(val), Byte1(val), Byte2(val), Byte3(val)>>
        /\ ncalls' = ncalls + 1
        /\ UNCHANGED <<marks, notCodec>>

CallWriteString ==
    \E s \in SampleStrings :
        /\ ncalls < MaxCalls
        /\ data' = write_string(data, s)
        /\ payload' = payload \o <<Byte0(Len(s)), Byte1(Len(s))>> \o s
        /\ ncalls' = ncalls + 1
        /\ UNCHANGED <<marks, notCodec>>

CallStartNode ==
    \E t \in SampleTags :
        /\ ncalls < MaxCalls
        /\ data' = start_node(data, t)
        /\ marks' = marks \cup {Len(data) + 1}
        /\ payload' = Append(payload, t)
        /\ ncalls' = ncalls + 1
        /\ UNCHANGED notCodec

CallEndNode ==
    /\ ncalls < MaxCalls
    /\ data' = end_node(data)
    /\ marks' = marks \cup {Len(data) + 1}
    /\ ncalls' = ncalls + 1
    /\ UNCHANGED <<payload, notCodec>>

NextCodec ==
    \/ CallWriteByte
    \/ CallWriteUint16
    \/ CallWriteUint32
    \/ CallWriteString
    \/ CallStartNode
    \/ CallEndNode

SpecCodec == InitCodec /\ [][NextCodec]_vars

(***************************************************************************)
(* Reading a buffer by the parsing contract: 0xFD makes the next byte a    *)
(* literal, an unescaped 0xFE / 0xFF is a marker.                          *)
(***************************************************************************)
RECURSIVE UnescapedMarkersFrom(_, _)
UnescapedMarkersFrom(d, i) ==
    IF i > Len(d) THEN {}
    ELSE IF d[i] = 253 THEN UnescapedMarkersFrom(d, i + 2)
    ELSE IF d[i] \in {254, 255} THEN {i} \cup UnescapedMarkersFrom(d, i + 1)
    ELSE UnescapedMarkersFrom(d, i + 1)

UnescapedMarkers(d) == UnescapedMarkersFrom(d, 1)

RECURSIVE LiteralsFrom(_, _)
LiteralsFrom(d, i) ==
    IF i > Len(d) THEN <<>>
    ELSE IF d[i] = 253
         THEN (IF i + 1 <= Len(d) THEN <<d[i + 1]>> ELSE <<>>) \o LiteralsFrom(d, i + 2)
    ELSE IF d[i] \in {254, 255} THEN LiteralsFrom(d, i + 1)
    ELSE <<d[i]>> \o LiteralsFrom(d, i + 1)

Literals(d) == LiteralsFrom(d, 1)

NumSpecial(bs) == Cardinality({i \in DOMAIN bs : bs[i] \in {253, 254, 255}})

RECURSIVE ReadAllFrom(_, _)
\* read_byte_escape repeated until it returns None
ReadAllFrom(d, pos) ==
    LET r == read_byte_escape(d, pos)
    IN  IF r[1] = <<>> THEN <<>> ELSE r[1] \o ReadAllFrom(d, r[2])

ReadAll(d) == ReadAllFrom(d, 0)

\* C2: every payload byte (tag, integer, length and string bytes) in
\* {0xFD, 0xFE, 0xFF} is written as 0xFD followed by the byte and every other
\* byte unchanged, so the unescaped 0xFE / 0xFF of the buffer are exactly the
\* markers that start_node and end_node appended.
C2_EscapeDiscipline ==
    /\ UnescapedMarkers(data) = marks
    /\ Literals(data) = payload
    /\ Len(data) = Cardinality(marks) + Len(payload) + NumSpecial(payload)

\* a marker was appended after a payload byte that needed the escape
C2_Witness ==
    /\ \E i \in DOMAIN payload : payload[i] \in Special
    /\ \E m \in marks : m > 2 /\ data[m - 2] = NODE_ESC
    /\ ncalls = MaxCalls

\* C3: escape-encoding a byte sequence (write_byte byte by byte, or
\* escape_otb_data) and decoding it with read_byte_escape until the input is
\* consumed gives the sequence back.
C3_EscapeRoundTrip ==
    /\ ReadAll(write_bytes(<<>>, payload)) = payload
    /\ ReadAll(escape_otb_data(payload)) = payload

\* a sequence holding all three special bytes was encoded and decoded
C3_Witness ==
    /\ {253, 254, 255} \subseteq Range(payload)
    /\ Len(write_bytes(<<>>, payload)) = Len(payload) + NumSpecial(payload)
    /\ ReadAll(write_bytes(<<>>, payload)) = payload

(***************************************************************************)
(* SpecSpawn: generate_spawns_xml (sec_to_otbm.py)                         *)
(*                                                                         *)
(* One action per iteration of the two loops: a monster.db line, then an   *)
(* NPC.  The spiral loops test every cell of a ring; a cell that is not in *)
(* walkable_tiles only bumps the skipped_unwalkable statistic, so a ring   *)
(* is modelled by its walkable cells, taken in the loops' order (dx        *)
(* ascending, then dy ascending).                                          *)
(***************************************************************************)
MaxRegions == 3

\* positions of the map (x, y, z) that sectors may hold a tile for
Cells == {<<0, 0, 7>>, <<1, 0, 7>>, <<2, 0, 7>>, <<0, 1, 7>>}
Amounts == {0, 1, 2}

\* range(50) of the monster spiral
MONSTER_RADIUS_STOP == 50
\* range(2, 10) of the NPC spiral
NPC_RADIUS_START == 2
NPC_RADIUS_STOP == 10

notSpawn == <<codecVars, itemVars, stackVars, mapVars, unpackVars, mainVars, readerVars, otbVars, otbFileVars, contentVars, townsVars>>

OffsetTile(c, off) == <<c[1] + off[1], c[2] + off[2], c[3]>>

\* abs(dx) == radius or abs(dy) == radius, for dx, dy in range(-radius, radius + 1)
OnPerimeter(off, radius) ==
    /\ Abs(off[1]) <= radius /\ Abs(off[2]) <= radius
    /\ (Abs(off[1]) = radius \/ Abs(off[2]) = radius)

RingOffsets(c, radius) ==
    {off \in {<<t[1] - c[1], t[2] - c[2]>> : t \in {u \in walkable_tiles : u[3] = c[3]}} :
        OnPerimeter(off, radius)}

LoopBefore(a, b) == a[1] < b[1] \/ (a[1] = b[1] /\ a[2] < b[2])

RECURSIVE InLoopOrder(_)
\* the offsets of S in the order "for dx ...: for dy ...:" meets them
InLoopOrder(S) ==
    IF S = {} THEN <<>>
    ELSE LET m == CHOOSE a \in S : \A b \in S : a = b \/ LoopBefore(a, b)
         IN  <<m>> \o InLoopOrder(S \ {m})

\* the walkable cells of ring `radius` in probing order
RingOrder(c, radius) == InLoopOrder(RingOffsets(c, radius))

\* the monster test with the "not in global_used_tiles" half left out
MonsterTileFree_walkable_only(tile, used) == tile \in walkable_tiles

\* "tile in walkable_tiles and tile not in global_used_tiles"
MonsterTileFree(tile, used) == tile \in walkable_tiles /\ tile \notin used

RECURSIVE PlaceOnRing(_, _, _, _)
\* the body of one radius iteration; st = [offsets, used]
PlaceOnRing(cands, c, amount, st) ==
    IF cands = <<>> \/ Len(st.offsets) >= amount THEN st
    ELSE LET tile == OffsetTile(c, Head(cands))
         IN  IF MonsterTileFree(tile, st.used)
             THEN PlaceOnRing(Tail(cands), c, amount,
                              [offsets |-> Append(st.offsets, Head(cands)),
                               used |-> st.used \cup {tile}])
             ELSE PlaceOnRing(Tail(cands), c, amount, st)

RECURSIVE PlaceFrom(_, _, _, _)
\* "for radius in range(50): if placed_count >= amount: break ..."
PlaceFrom(radius, c, amount, st) ==
    IF radius >= MONSTER_RADIUS_STOP \/ Len(st.offsets) >= amount THEN st
    ELSE PlaceFrom(radius + 1, c, amount, PlaceOnRing(RingOrder(c, radius), c, amount, st))

\* the offset of the first creature only
MaxOffset_first_only(offs) ==
    IF offs = <<>> THEN 0 ELSE Max(Abs(Head(offs)[1]), Abs(Head(offs)[2]))

RECURSIVE MaxOffset(_)
\* max(max(abs(dx), abs(dy)) for dx, dy in creature_offsets)
MaxOffset(offs) ==
    IF offs = <<>> THEN 0
    ELSE Max(Max(Abs(Head(offs)[1]), Abs(Head(offs)[2])), MaxOffset(Tail(offs)))

InitSpawn ==
    /\ walkable_tiles \in SUBSET Cells
    /\ global_used_tiles = {}
    /\ global_spawn_centers = {}
    /\ spawns = <<>>
    /\ phase = "monsters"
    /\ nmon = 0 /\ nnpc = 0
    /\ IdleCodec /\ IdleItem /\ IdleStack /\ IdleMap /\ IdleUnpack /\ IdleMain /\ IdleReader /\ IdleOtb /\ IdleOtbFile /\ IdleContent /\ IdleTowns

\* a monster.db line whose race has no .mon file: "if not monster_name: continue"
SkipUnknownRace ==
    /\ phase = "monsters"
    /\ nmon + nnpc < MaxRegions
    /\ nmon' = nmon + 1
    /\ UNCHANGED <<walkable_tiles, global_used_tiles, global_spawn_centers, spawns,
                   phase, nnpc, notSpawn>>

\* a region is written only when every one of its creatures found a tile
RegionEmitted_only_when_full(offsets, amount) == offsets # <<>> /\ Len(offsets) >= amount

\* "if creature_offsets: ... else: calculated_radius = 1; continue"
RegionEmitted(offsets, amount) == offsets # <<>>

\* one iteration of "for spawn in monster_spawns" for the line (c, amount)
MonsterStep(c, amount) ==
    LET st == PlaceFrom(0, c, amount, [offsets |-> <<>>, used |-> global_used_tiles])
    IN  /\ phase = "monsters"
        /\ nmon + nnpc < MaxRegions
        /\ nmon' = nmon + 1
        /\ global_spawn_centers' = global_spawn_centers \cup {c}
        /\ global_used_tiles' = st.used
        /\ spawns' = IF ~RegionEmitted(st.offsets, amount) THEN spawns
                     ELSE Append(spawns, [kind |-> "monster", declared |-> c,
                                          center |-> c,
                                          radius |-> Max(1, MaxOffset(st.offsets)),
                                          amount |-> amount,
                                          offsets |-> st.offsets])
        /\ UNCHANGED <<walkable_tiles, phase, nnpc, notSpawn>>

ProcessMonster == \E c \in Cells, amount \in Amounts : MonsterStep(c, amount)

\* the monster loop ends
MonstersDone ==
    /\ phase = "monsters"
    /\ phase' = "npcs"
    /\ UNCHANGED <<walkable_tiles, global_used_tiles, global_spawn_centers, spawns,
                   nmon, nnpc, notSpawn>>

\* the NPC test with only its first half, the one on the region centers
NpcCenterFree_centers_only(c) == c \notin global_spawn_centers

\* the NPC test of a candidate center
NpcCenterFree(c) ==
    /\ c \notin global_spawn_centers
    /\ c \in walkable_tiles /\ c \notin global_used_tiles

\* [(1, 0), (-1, 0), (0, 1), (0, -1)]
Cardinals == <<<<1, 0>>, <<-1, 0>>, <<0, 1>>, <<0, -1>>>>

RECURSIVE NpcRings(_, _)
\* the offsets probed by "for radius in range(2, 10)", in order
NpcRings(c, radius) ==
    IF radius >= NPC_RADIUS_STOP THEN <<>>
    ELSE RingOrder(c, radius) \o NpcRings(c, radius + 1)

\* every center an NPC declared at c may get, in the order it is tried
NpcCandidates(c) == <<<<0, 0>>>> \o Cardinals \o NpcRings(c, NPC_RADIUS_START)

RECURSIVE FirstFree(_, _)
\* <<center>> of the first candidate that passes the test, <<>> if none does
FirstFree(c, cands) ==
    IF cands = <<>> THEN <<>>
    ELSE IF NpcCenterFree(OffsetTile(c, Head(cands))) THEN <<OffsetTile(c, Head(cands))>>
    ELSE FirstFree(c, Tail(cands))

\* the position recorded for a placed NPC, taken from the declared center
NpcRecorded_declared(declared, center) == declared

\* the position added to global_spawn_centers and global_used_tiles
NpcRecorded(declared, center) == center

\* one iteration of "for npc in npc_spawns" for the NPC declared at c
NpcStep(c) ==
    LET found == FirstFree(c, NpcCandidates(c))
    IN  /\ phase = "npcs"
        /\ nmon + nnpc < MaxRegions
        /\ nnpc' = nnpc + 1
        /\ IF found = <<>>
           THEN UNCHANGED <<global_spawn_centers, global_used_tiles, spawns>>
           ELSE /\ global_spawn_centers' =
                      global_spawn_centers \cup {NpcRecorded(c, found[1])}
                /\ global_used_tiles' =
                      global_used_tiles \cup {NpcRecorded(c, found[1])}
                /\ spawns' = Append(spawns, [kind |-> "npc", declared |-> c,
                                             center |-> found[1], radius |-> 1,
                                             amount |-> 1,
                                             offsets |-> <<<<0, 0>>>>])
        /\ UNCHANGED <<walkable_tiles, phase, nmon, notSpawn>>

ProcessNpc == \E c \in Cells : NpcStep(c)

\* the NPC loop ends and the XML is written
SpawnsDone ==
    /\ phase = "npcs"
    /\ phase' = "done"
    /\ UNCHANGED <<walkable_tiles, global_used_tiles, global_spawn_centers, spawns,
                   nmon, nnpc, notSpawn>>

NextSpawn ==
    \/ SkipUnknownRace
    \/ ProcessMonster
    \/ MonstersDone
    \/ ProcessNpc
    \/ SpawnsDone

SpecSpawn == InitSpawn /\ [][NextSpawn]_vars

(***************************************************************************)
(* SpecSpawnFar: the monster loop on a map whose walkable tiles lie up to  *)
(* 50 cells from the region centers, where the last radius of range(50)    *)
(* decides                                                                 *)
(***************************************************************************)
FarCells == {<<0, 0, 7>>, <<1, 0, 7>>, <<49, 0, 7>>, <<50, 0, 7>>}
FarCenters == {<<0, 0, 7>>, <<1, 0, 7>>}

InitSpawnFar ==
    /\ walkable_tiles \in SUBSET FarCells
    /\ global_used_tiles = {}
    /\ global_spawn_centers = {}
    /\ spawns = <<>>
    /\ phase = "monsters"
    /\ nmon = 0 /\ nnpc = 0
    /\ IdleCodec /\ IdleItem /\ IdleStack /\ IdleMap /\ IdleUnpack /\ IdleMain /\ IdleReader /\ IdleOtb /\ IdleOtbFile /\ IdleContent /\ IdleTowns

ProcessFarMonster == \E c \in FarCenters, amount \in Amounts : MonsterStep(c, amount)

\* NPCs declared 9 and 10 cells from the far walkable tiles
FarNpcCenters == {<<40, 0, 7>>, <<41, 0, 7>>}

ProcessFarNpc == \E c \in FarNpcCenters : NpcStep(c)

NextSpawnFar == ProcessFarMonster \/ MonstersDone \/ ProcessFarNpc \/ SpawnsDone

SpecSpawnFar == InitSpawnFar /\ [][NextSpawnFar]_vars

\* the creatures of the output: <<i, k>> is the k-th creature of the i-th <spawn>
Creatures == UNION {{<<i, k>> : k \in DOMAIN spawns[i].offsets} : i \in DOMAIN spawns}
CreatureTile(ik) == OffsetTile(spawns[ik[1]].center, spawns[ik[1]].offsets[ik[2]])

\* C4: no two placed creatures (of one region, of two regions, NPCs) stand on
\* the same tile (center_x+dx, center_y+dy, z), and every occupied tile is in
\* the walkable set.
C4_PlacementUnique ==
    /\ \A a, b \in Creatures : a # b => CreatureTile(a) # CreatureTile(b)
    /\ \A a \in Creatures : CreatureTile(a) \in walkable_tiles

\* a monster region with two creatures and an NPC moved off its declared
\* center, all emitted
C4_Witness ==
    /\ \E i \in DOMAIN spawns : spawns[i].kind = "monster" /\ Len(spawns[i].offsets) = 2
    /\ \E j \in DOMAIN spawns : spawns[j].kind = "npc" /\ spawns[j].center # spawns[j].declared

\* C5: no two emitted spawn regions have the same center (x, y, z).
C5_CentersUnique ==
    \A i, j \in DOMAIN spawns : i # j => spawns[i].center # spawns[j].center

\* C6: two emitted regions with different declared centers have different
\* emitted centers, also when an NPC center was shifted.
C6_DistinctDeclaredDistinctEmitted ==
    \A i, j \in DOMAIN spawns :
        spawns[i].declared # spawns[j].declared => spawns[i].center # spawns[j].center

\* an NPC was shifted onto the center that a later emitted NPC declares
C6_Witness ==
    \E i, j \in DOMAIN spawns :
        /\ i < j
        /\ spawns[i].kind = "npc" /\ spawns[j].kind = "npc"
        /\ spawns[i].center # spawns[i].declared
        /\ spawns[i].center = spawns[j].declared

(***************************************************************************)
(* SpecStack: the item order of one tile (sec_to_otbm.py)                  *)
(*                                                                         *)
(* The tile's list is built by appending parsed items; the writer then     *)
(* computes items_to_write from it and from item_stack_priority.  An item  *)
(* is [id |-> type id]: the sort reads nothing but item.get('id').  The    *)
(* priority table is <<>> for None and <<T>> for a dict T (a function from *)
(* type ids to priorities, its domain empty for {}).                       *)
(***************************************************************************)
MaxItems == 3

STACK_PRIORITY_LOW == 5

TypeIds == {1, 2, 3, 4}
EmptyTable == [id \in {} |-> 0]
TableA == [id \in {1, 2, 4} |-> IF id = 1 THEN 0 ELSE IF id = 2 THEN 5 ELSE 3]
TableB == [id \in {1, 2, 3} |-> IF id = 1 THEN 4 ELSE 2]
PriorityTables == {<<>>, <<EmptyTable>>, <<TableA>>, <<TableB>>}

notStack == <<codecVars, itemVars, mapVars, spawnVars, unpackVars, mainVars, readerVars, otbVars, otbFileVars, contentVars, townsVars>>

\* the sort key with a missing type put at the bottom of the stack
SortKey_default_bank(item, T) == IF item.id \in DOMAIN T THEN T[item.id] ELSE 0

\* key(item): type_to_priority.get(item.get('id'), STACK_PRIORITY_LOW)
SortKey(item, T) == IF item.id \in DOMAIN T THEN T[item.id] ELSE STACK_PRIORITY_LOW

RECURSIVE InsertStable(_, _, _)
\* a stable sort puts an item behind every item whose key is not larger
InsertStable(sorted, item, T) ==
    IF sorted = <<>> THEN <<item>>
    ELSE IF SortKey(Head(sorted), T) <= SortKey(item, T)
         THEN <<Head(sorted)>> \o InsertStable(Tail(sorted), item, T)
         ELSE <<item>> \o sorted

RECURSIVE SortedFrom(_, _, _)
\* sorted(items, key=key)
SortedFrom(acc, items, T) ==
    IF items = <<>> THEN acc
    ELSE SortedFrom(InsertStable(acc, Head(items), T), Tail(items), T)

\* _sort_tile_items_by_priority
sort_tile_items_by_priority(items, type_to_priority) ==
    IF items = <<>> \/ type_to_priority = <<>> \/ DOMAIN type_to_priority[1] = {}
    THEN items
    ELSE SortedFrom(<<>>, items, type_to_priority[1])

\* the truth value of item_stack_priority: neither None nor {}
TableGiven(item_stack_priority) ==
    item_stack_priority # <<>> /\ DOMAIN item_stack_priority[1] # {}

\* items_to_write of convert_map_to_otbm
ItemsToWrite(items, item_stack_priority) ==
    IF TableGiven(item_stack_priority)
    THEN Reverse(sort_tile_items_by_priority(items, item_stack_priority))
    ELSE items

InitStack ==
    /\ tile_items = <<>> /\ table = <<>> /\ written = <<>> /\ spc = "collect"
    /\ IdleCodec /\ IdleItem /\ IdleMap /\ IdleSpawn /\ IdleUnpack /\ IdleMain /\ IdleReader /\ IdleOtb /\ IdleOtbFile /\ IdleContent /\ IdleTowns

\* items.append(item_data): the parser adds an item to the tile's list
AppendTileItem ==
    \E id \in TypeIds :
        /\ spc = "collect"
        /\ Len(tile_items) < MaxItems
        /\ tile_items' = Append(tile_items, [id |-> id])
        /\ UNCHANGED <<table, written, spc, notStack>>

\* the writer reaches the tile and computes the order it writes
NormalizeTile ==
    \E t \in PriorityTables :
        /\ spc = "collect"
        /\ tile_items # <<>>
        /\ table' = t
        /\ written' = ItemsToWrite(tile_items, t)
        /\ spc' = "done"
        /\ UNCHANGED <<tile_items, notStack>>

NextStack ==
    \/ AppendTileItem
    \/ NormalizeTile

SpecStack == InitStack /\ [][NextStack]_vars

\* the priority of the claim: the table's, Low (5) for a type missing from it
ClaimPriority(item, T) == IF item.id \in DOMAIN T THEN T[item.id] ELSE 5

\* the items of L of priority p, in L's order
OfPriority(L, T, p) == SelectSeq(L, LAMBDA it : ClaimPriority(it, T) = p)

\* stable_sort_by_priority(L): the priority classes 0..5 one after the other
StableSortByPriority(L, T) ==
    OfPriority(L, T, 0) \o OfPriority(L, T, 1) \o OfPriority(L, T, 2)
        \o OfPriority(L, T, 3) \o OfPriority(L, T, 4) \o OfPriority(L, T, 5)

SwapAt(L, i, j) == [k \in DOMAIN L |-> IF k = i THEN L[j] ELSE IF k = j THEN L[i] ELSE L[k]]

\* where the item at position k of L stands in reverse(stable_sort_by_priority(L))
OutputPosition(L, T, k) ==
    Len(L) + 1
      - ( Cardinality({m \in DOMAIN L : ClaimPriority(L[m], T) < ClaimPriority(L[k], T)})
        + Cardinality({m \in 1..k : ClaimPriority(L[m], T) = ClaimPriority(L[k], T)}) )

\* C7: with a priority table the order written for a tile is
\* reverse(stable_sort_by_priority(L)), a type missing from the table having
\* priority Low; swapping two equal-priority items of L swaps exactly those two
\* in the output; with no table (None or empty) the input order is written.
C7_StackOrder ==
    spc = "done" =>
        IF table # <<>> /\ DOMAIN table[1] # {}
        THEN /\ written = Reverse(StableSortByPriority(tile_items, table[1]))
             /\ \A i, j \in DOMAIN tile_items :
                   (i < j /\ ClaimPriority(tile_items[i], table[1])
                                = ClaimPriority(tile_items[j], table[1]))
                   => ItemsToWrite(SwapAt(tile_items, i, j), table)
                        = SwapAt(written, OutputPosition(tile_items, table[1], i),
                                          OutputPosition(tile_items, table[1], j))
        ELSE written = tile_items

\* a tile with two different equal-priority items, one of them missing from
\* the table, and a lower-priority item behind them was written
C7_Witness ==
    /\ spc = "done"
    /\ table = <<TableA>>
    /\ tile_items = <<[id |-> 2], [id |-> 3], [id |-> 1]>>
    /\ written = <<[id |-> 3], [id |-> 2], [id |-> 1]>>

(***************************************************************************)
(* SpecItem: one item spec, from _append_item_from_spec to the Item node   *)
(* written by _write_otbm_item_recursive (sec_to_otbm.py)                  *)
(*                                                                         *)
(* item_data is the Python dict: a function from the keys that are set to  *)
(* their values (d.get(k) is not None  <=>  k \in DOMAIN d).  A text is    *)
(* the sequence of its latin-1 bytes, a content list a sequence of dicts.  *)
(* The value of a Key=Value part is <<v>> when int(value) succeeds and     *)
(* <<>> when it raises ValueError.                                         *)
(***************************************************************************)
MaxParts == 2

OTBM_ITEM == 6
OTBM_ATTR_ACTION_ID == 4
OTBM_ATTR_UNIQUE_ID == 5
OTBM_ATTR_TEXT == 6
OTBM_ATTR_TELE_DEST == 8
OTBM_ATTR_COUNT == 15
OTBM_ATTR_CHARGES == 22

notItem == <<codecVars, stackVars, mapVars, spawnVars, unpackVars, mainVars, readerVars, otbVars, otbFileVars, contentVars, townsVars>>

Has(d, k) == k \in DOMAIN d
DictSet(d, k, v) == [x \in (DOMAIN d) \cup {k} |-> IF x = k THEN v ELSE d[x]]

\* SERVER_LIQUID_TO_RME
SERVER_LIQUID_TO_RME ==
    [c \in 0..12 |->
        CASE c = 0 -> 0   [] c = 1 -> 1   [] c = 2 -> 15  [] c = 3 -> 3
          [] c = 4 -> 19  [] c = 5 -> 2   [] c = 6 -> 4   [] c = 7 -> 11
          [] c = 8 -> 13  [] c = 9 -> 6   [] c = 10 -> 7  [] c = 11 -> 10
          [] c = 12 -> 5]

\* the liquid code written untranslated
LiquidToRme_untranslated(c) == c

\* SERVER_LIQUID_TO_RME.get(liquid_type, liquid_type)
LiquidToRme(c) == IF c \in DOMAIN SERVER_LIQUID_TO_RME THEN SERVER_LIQUID_TO_RME[c] ELSE c

\* packed & 0xFFFFFFFF on the two 16-bit halves: the int q * 65536 + r
\* becomes hi * 65536 + lo
Mask32(q, r) == <<q % 65536, r>>

\* the y of the unpacker without the two bits that come from the upper half
UnpackLimbs_low_half_y(hi, lo) ==
    <<((hi \div 4) % 16384) + 24576, ((lo \div 16) % 16384) + 24576, lo % 16>>

\* x, y, z of _unpack_absolute_coordinate from p = hi * 65536 + lo:
\* p >> 18 is hi >> 2, p >> 4 is hi * 4096 + (lo >> 4), p & 0xF is lo & 0xF
UnpackLimbs(hi, lo) ==
    <<((hi \div 4) % 16384) + 24576,
      ((hi * 4096 + lo \div 16) % 16384) + 24576,
      lo % 16>>

\* _unpack_absolute_coordinate of an int that fits 32 signed bits
unpack_absolute_coordinate(p) ==
    LET m == Mask32(p \div 65536, p % 65536) IN UnpackLimbs(m[1], m[2])

\* the Count attribute with the count taking precedence over the liquid
WriteCountAttr_count_first(d, item) ==
    IF Has(item, "count")
    THEN write_byte(write_byte(d, OTBM_ATTR_COUNT), Min(255, Max(0, item.count)))
    ELSE IF Has(item, "liquid_type")
    THEN write_byte(write_byte(d, OTBM_ATTR_COUNT), LiquidToRme(item.liquid_type))
    ELSE d

\* "if liquid_type is not None: ... elif count is not None: ..."
WriteCountAttr(d, item) ==
    IF Has(item, "liquid_type")
    THEN write_byte(write_byte(d, OTBM_ATTR_COUNT), LiquidToRme(item.liquid_type))
    ELSE IF Has(item, "count")
    THEN write_byte(write_byte(d, OTBM_ATTR_COUNT), Min(255, Max(0, item.count)))
    ELSE d

\* action id, unique id and charges, in the order of the ifs
WriteIdAttrs(d, item) ==
    LET a == IF Has(item, "actionid")
             THEN write_uint16(write_byte(d, OTBM_ATTR_ACTION_ID), item.actionid) ELSE d
        u == IF Has(item, "uniqueid")
             THEN write_uint16(write_byte(a, OTBM_ATTR_UNIQUE_ID), item.uniqueid) ELSE a
    IN  IF Has(item, "charges")
        THEN write_uint16(write_byte(u, OTBM_ATTR_CHARGES), Min(65535, Max(0, item.charges)))
        ELSE u

\* "if item_data.get('text')": the key is set and the string is not empty
WriteTextAttr(d, item) ==
    IF Has(item, "text") /\ item.text # <<>>
    THEN write_string(write_byte(d, OTBM_ATTR_TEXT), item.text)
    ELSE d

\* "if item_data.get('teleport_dest')": a 3-tuple is always true
WriteTeleAttr(d, item) ==
    IF Has(item, "teleport_dest")
    THEN LET t == item.teleport_dest
         IN  write_byte(
                 write_uint16(
                     write_uint16(write_byte(d, OTBM_ATTR_TELE_DEST), Min(65535, Max(0, t[1]))),
                     Min(65535, Max(0, t[2]))),
                 Min(15, Max(0, t[3])))
    ELSE d

\* item_data.get('content') or item_data.get('contents') or []
ContentList(item) ==
    IF Has(item, "content") /\ item.content # <<>> THEN item.content
    ELSE IF Has(item, "contents") /\ item.contents # <<>> THEN item.contents
    ELSE <<>>

RECURSIVE write_otbm_item_recursive(_, _)
RECURSIVE WriteChildren(_, _)
\* "for child in content_list: _write_otbm_item_recursive(writer, child, counters)"
\* (a writer only appends: what a call adds to d is what it writes to an
\* empty buffer)
WriteChildren(d, list) ==
    IF list = <<>> THEN d
    ELSE WriteChildren(d \o write_otbm_item_recursive(<<>>, Head(list)), Tail(list))

\* _write_otbm_item_recursive
write_otbm_item_recursive(d, item) ==
    end_node(
        WriteChildren(
            WriteTeleAttr(
                WriteTextAttr(
                    WriteIdAttrs(
                        WriteCountAttr(write_uint16(start_node(d, OTBM_ITEM), item.id), item),
                        item),
                    item),
                item),
            ContentList(item)))

RECURSIVE ItemWritable(_)
\* bytearray.append raises ValueError for a value outside 0..255; the only
\* write_byte argument of the item writer that is neither masked nor clamped
\* is the liquid subtype
ItemWritable(item) ==
    /\ Has(item, "liquid_type") => LiquidToRme(item.liquid_type) \in 0..255
    /\ \A i \in DOMAIN ContentList(item) : ItemWritable(ContentList(item)[i])

\* spellings of the keys of an item spec
SpecKeys ==
    {"ChestQuestNumber", "KeyholeNumber", "DoorQuestNumber", "Level", "KeyNumber",
     "DoorQuestValue", "Amount", "AMOUNT", "Charges", "ContainerLiquidType",
     "PoolLiquidType", "AbsTeleportDestination", "RemainingExpireTime",
     "SavedExpireTime", "RemainingUses", "Responsible", "Id"}

\* key.lower()
Lower(key) ==
    CASE key = "ChestQuestNumber" -> "chestquestnumber"
      [] key = "KeyholeNumber" -> "keyholenumber"
      [] key = "DoorQuestNumber" -> "doorquestnumber"
      [] key = "Level" -> "level"
      [] key = "KeyNumber" -> "keynumber"
      [] key = "DoorQuestValue" -> "doorquestvalue"
      [] key = "Amount" -> "amount"
      [] key = "AMOUNT" -> "amount"
      [] key = "Charges" -> "charges"
      [] key = "ContainerLiquidType" -> "containerliquidtype"
      [] key = "PoolLiquidType" -> "poolliquidtype"
      [] key = "AbsTeleportDestination" -> "absteleportdestination"
      [] key = "RemainingExpireTime" -> "remainingexpiretime"
      [] key = "SavedExpireTime" -> "savedexpiretime"
      [] key = "RemainingUses" -> "remaininguses"
      [] key = "Responsible" -> "responsible"
      [] key = "Id" -> "id"

\* the values tried for a key; <<>> is a value int() rejects
SpecValues(key) ==
    {<<>>} \cup
    (IF key = "ContainerLiquidType" THEN {<<v>> : v \in (0..13) \cup {300}}
     ELSE IF key = "PoolLiquidType" THEN {<<9>>, <<13>>}
     ELSE IF key = "Amount" THEN {<<0>>, <<9>>, <<300>>}
     ELSE IF key \in {"KeyholeNumber", "DoorQuestNumber", "Level", "DoorQuestValue",
                      "RemainingExpireTime", "SavedExpireTime", "RemainingUses",
                      "Responsible", "Id"}
     THEN {<<9>>}
     ELSE {<<9>>, <<300>>})

\* _DEBUG_LOG_SKIP
DEBUG_LOG_SKIP == {"remainingexpiretime", "savedexpiretime", "remaininguses"}

\* _log_new_type
log_new_type(entries, type_name) ==
    IF type_name \in DEBUG_LOG_SKIP THEN entries ELSE entries \cup {type_name}

\* the if / elif chain on key of _append_item_from_spec
ApplyKey(item, key, v) ==
    IF key \in {"chestquestnumber", "doorquestnumber", "keyholenumber", "level"}
    THEN DictSet(item, "actionid", v)
    ELSE IF key = "keynumber" THEN DictSet(item, "uniqueid", v)
    ELSE IF key = "doorquestvalue" THEN DictSet(item, "uniqueid", v)
    ELSE IF key = "amount" THEN DictSet(item, "count", v)
    ELSE IF key \in {"poolliquidtype", "containerliquidtype"} THEN DictSet(item, "liquid_type", v)
    ELSE IF key = "charges" THEN DictSet(item, "charges", v)
    ELSE IF key = "absteleportdestination"
    THEN DictSet(item, "teleport_dest", unpack_absolute_coordinate(v))
    ELSE IF key \in {"remainingexpiretime", "savedexpiretime", "remaininguses"} THEN item
    ELSE DictSet(item, key, v)

\* parsed items a nested Content={...} may hold
ChildPlain == [id |-> 3031]
ChildFull == [id |-> 2006, liquid_type |-> 9, content |-> <<[id |-> 3031]>>]

ItemIds == {2006}
\* string_val: <<>> when the spec has no String="...", else <<text>>
StringChoices == {<<>>, <<<<>>>>, <<<<97>>>>}
\* the parsed nested content: <<>> when the spec has no Content={...}
ContentChoices == {<<>>, <<<<ChildPlain, ChildFull>>>>}

InitItem ==
    /\ item_data = <<>> /\ log = {} /\ iparts = 0 /\ part = <<>>
    /\ ipc = "start" /\ ibuf = <<>>
    /\ IdleCodec /\ IdleStack /\ IdleMap /\ IdleSpawn /\ IdleUnpack /\ IdleMain /\ IdleReader /\ IdleOtb /\ IdleOtbFile /\ IdleContent /\ IdleTowns

\* _append_item_from_spec up to the loop over the parts: the type id, the
\* text and the nested content
BeginItem ==
    \E id \in ItemIds, string_val \in StringChoices, nested \in ContentChoices :
        LET d0 == [x \in {"id"} |-> id]
            d1 == IF string_val # <<>> THEN DictSet(d0, "text", string_val[1]) ELSE d0
            d2 == IF nested # <<>> THEN DictSet(d1, "content", nested[1]) ELSE d1
            l1 == IF nested # <<>> THEN log_new_type(log, "container") ELSE log
            l2 == IF string_val # <<>> THEN log_new_type(l1, "string") ELSE l1
        IN  /\ ipc = "start"
            /\ item_data' = d2
            /\ log' = l2
            /\ ipc' = "parse"
            /\ UNCHANGED <<iparts, part, ibuf, notItem>>

\* one iteration of "for part in parts[1:]" for a Key=Value part
ApplyPart ==
    \E k \in SpecKeys :
        \E v \in SpecValues(k) :
            /\ ipc = "parse"
            /\ iparts < MaxParts
            /\ iparts' = iparts + 1
            /\ part' = <<k, v>>
            /\ log' = log_new_type(log, Lower(k))
            /\ item_data' = IF v = <<>> THEN item_data ELSE ApplyKey(item_data, Lower(k), v[1])
            /\ UNCHANGED <<ipc, ibuf, notItem>>

\* the item reaches the writer: _write_otbm_item_recursive on a fresh buffer
WriteItem ==
    /\ ipc = "parse"
    /\ IF ItemWritable(item_data)
       THEN ibuf' = write_otbm_item_recursive(<<>>, item_data) /\ ipc' = "written"
       ELSE ibuf' = <<>> /\ ipc' = "crashed"
    /\ UNCHANGED <<item_data, log, iparts, part, notItem>>

NextItem ==
    \/ BeginItem
    \/ ApplyPart
    \/ WriteItem

SpecItem == InitItem /\ [][NextItem]_vars

(***************************************************************************)
(* Reading an emitted buffer back as node structure: an unescaped 0xFE is  *)
(* the token NodeStart, an unescaped 0xFF the token NodeEnd, every other   *)
(* byte (after removing its escape) a literal.                             *)
(***************************************************************************)
\* the two marker tokens, outside the range of a literal
NodeStart == 256 + NODE_INIT
NodeEnd == 256 + NODE_TERM

RECURSIVE TokensFrom(_, _)
TokensFrom(d, i) ==
    IF i > Len(d) THEN <<>>
    ELSE IF d[i] = 253
         THEN (IF i + 1 <= Len(d) THEN <<d[i + 1]>> ELSE <<>>) \o TokensFrom(d, i + 2)
    ELSE IF d[i] = 254 THEN <<NodeStart>> \o TokensFrom(d, i + 1)
    ELSE IF d[i] = 255 THEN <<NodeEnd>> \o TokensFrom(d, i + 1)
    ELSE <<d[i]>> \o TokensFrom(d, i + 1)

Tokens(d) == TokensFrom(d, 1)

LittleEndian16(v) == <<v % 256, (v \div 256) % 256>>

\* the liquid table as the documentation gives it
DocLiquid(c) ==
    CASE c = 0 -> 0   [] c = 1 -> 1   [] c = 2 -> 15  [] c = 3 -> 3
      [] c = 4 -> 19  [] c = 5 -> 2   [] c = 6 -> 4   [] c = 7 -> 11
      [] c = 8 -> 13  [] c = 9 -> 6   [] c = 10 -> 7  [] c = 11 -> 10
      [] c = 12 -> 5  [] OTHER -> c

\* the attributes of an item as the documentation orders them
DocAttributes(it) ==
    (IF Has(it, "liquid_type") THEN <<15, DocLiquid(it.liquid_type)>>
     ELSE IF Has(it, "count") THEN <<15, Min(255, Max(0, it.count))>>
     ELSE <<>>)
    \o (IF Has(it, "actionid") THEN <<4>> \o LittleEndian16(it.actionid) ELSE <<>>)
    \o (IF Has(it, "uniqueid") THEN <<5>> \o LittleEndian16(it.uniqueid) ELSE <<>>)
    \o (IF Has(it, "charges") THEN <<22>> \o LittleEndian16(it.charges) ELSE <<>>)
    \o (IF Has(it, "text") /\ Len(it.text) > 0
        THEN <<6>> \o LittleEndian16(Len(it.text)) \o it.text ELSE <<>>)
    \o (IF Has(it, "teleport_dest")
        THEN <<8>> \o LittleEndian16(it.teleport_dest[1])
                   \o LittleEndian16(it.teleport_dest[2]) \o <<it.teleport_dest[3]>>
        ELSE <<>>)

RECURSIVE DocItemNode(_)
RECURSIVE DocChildren(_)
DocChildren(list) ==
    IF list = <<>> THEN <<>> ELSE DocItemNode(Head(list)) \o DocChildren(Tail(list))

DocItemNode(it) ==
    <<NodeStart, 6>> \o LittleEndian16(it.id) \o DocAttributes(it)
    \o DocChildren(IF Has(it, "content") THEN it.content ELSE <<>>) \o <<NodeEnd>>

\* C9: the Item node written for an item instance is the start marker, the
\* tag 6, the type id, then the attributes that are set in the order Count
\* (0x0F), ActionID (0x04), UniqueID (0x05), Charges (0x16), Text (0x06),
\* TeleportDest (0x08), then the child Item nodes, then the end marker; there
\* is at most one Count attribute, with the translated liquid subtype when a
\* liquid subtype is set and the count otherwise.  A text is set when the
\* spec gave a non-empty string.
C9_ItemBodyOrder ==
    ipc = "written" => Tokens(ibuf) = DocItemNode(item_data)

C9_Witness ==
    /\ ipc = "written"
    /\ Has(item_data, "liquid_type") /\ Has(item_data, "count")
    /\ item_data.liquid_type # item_data.count
    /\ Has(item_data, "text") /\ item_data.text # <<>>
    /\ Has(item_data, "content") /\ Len(item_data.content) = 2

LiquidKeys == {"containerliquidtype", "poolliquidtype"}

\* C10: the Count payload of a written item whose liquid code is c is the
\* documented table value for c in 0..12 and c itself for any other code; the
\* table is injective on 0..12; and an item spec whose last attribute is
\* ContainerLiquidType=9 or PoolLiquidType=9 is written with Count payload 6.
C10_LiquidTranslation ==
    /\ \A a, b \in 0..12 : a # b => LiquidToRme(a) # LiquidToRme(b)
    /\ (ipc = "written" /\ Has(item_data, "liquid_type")) =>
           /\ Tokens(ibuf)[5] = 15
           /\ Tokens(ibuf)[6] = DocLiquid(item_data.liquid_type)
    /\ (ipc = "written" /\ part # <<>> /\ Lower(part[1]) \in LiquidKeys /\ part[2] = <<9>>) =>
           /\ Tokens(ibuf)[5] = 15
           /\ Tokens(ibuf)[6] = 6

C10_Witness ==
    /\ ipc = "written"
    /\ iparts = 1
    /\ part = <<"ContainerLiquidType", <<9>>>>
    /\ item_data.id = 2006
    /\ SubSeq(Tokens(ibuf), 1, 6) = <<NodeStart, 6, 214, 7, 15, 6>>

\* an item written with a liquid code outside the table
C10_PassThroughReached ==
    ipc = "written" /\ Has(item_data, "liquid_type") /\ item_data.liquid_type = 13

(***************************************************************************)
(* SpecMap: load_all_sectors followed by convert_map_to_otbm               *)
(* (sec_to_otbm.py)                                                        *)
(*                                                                         *)
(* A tile entry is [sx, sy, z, lx, ly, map_flags, items]: the sector of    *)
(* the file name and the tuple parse_sec_file appended.  parse_sec_file    *)
(* keeps a tile only when its item list is not empty.                      *)
(***************************************************************************)
MaxTiles == 2

OTBM_MAP_HEADER == 0
OTBM_MAP_DATA == 2
OTBM_TILE_AREA == 4
OTBM_TILE == 5
OTBM_TOWNS == 12
OTBM_TOWN == 13
OTBM_HOUSETILE == 14
OTBM_ATTR_DESCRIPTION == 1
OTBM_ATTR_TILE_FLAGS == 3
OTBM_ATTR_EXT_SPAWN_FILE == 11
OTBM_ATTR_EXT_HOUSE_FILE == 13

notMap == <<codecVars, itemVars, stackVars, spawnVars, unpackVars, mainVars, readerVars, otbVars, otbFileVars, contentVars, townsVars>>

\* sector numbers, floors and local coordinates of the .sec files tried:
\* sectors 7 and 8 lie on the two sides of x = 256, sector 2048 starts at
\* x = 65536, floor 256 does not fit a byte
SectorXs == {7, 8, 2048}
SectorYs == {0, 2048}
Floors == {7, 256}
LocalXs == {0, 31}
LocalYs == {5}

\* map_flags and parsed Content of a tile line
TileContents ==
    {<<0, <<[id |-> 1]>>>>,
     <<1, <<[id |-> 2], [id |-> 4, content |-> <<[id |-> 1]>>]>>>>}

\* map_name and the names derived from it, as latin-1 bytes
MapName == <<109>>
SpawnFileSuffix == <<45, 115, 112, 97, 119, 110, 46, 120, 109, 108>>
HouseFileSuffix == <<45, 104, 111, 117, 115, 101, 46, 120, 109, 108>>

\* the houses list parse_houses_dat returned: one house whose Fields hold the
\* tile (256, 5, 7), and one that lists a position no sector has a tile at
Houses ==
    <<[id |-> 3, tiles |-> <<<<256, 5, 7>>>>],
      [id |-> 4, tiles |-> <<<<100, 100, 7>>>>]>>

RECURSIVE HouseTilesInto(_, _, _)
\* "for (x, y, z) in house.get('tiles', []): pos_to_house[(x, y, z)] = hid"
HouseTilesInto(lookup, tiles, hid) ==
    IF tiles = <<>> THEN lookup
    ELSE HouseTilesInto(
             [q \in (DOMAIN lookup) \cup {Head(tiles)} |->
                 IF q = Head(tiles) THEN hid ELSE lookup[q]],
             Tail(tiles), hid)

RECURSIVE HousesInto(_, _)
HousesInto(lookup, houses) ==
    IF houses = <<>> THEN lookup
    ELSE LET house == Head(houses)
         IN  IF ~Has(house, "id") THEN HousesInto(lookup, Tail(houses))
             ELSE HousesInto(
                      HouseTilesInto(lookup,
                          IF Has(house, "tiles") THEN house.tiles ELSE <<>>, house.id),
                      Tail(houses))

\* build_house_positions
build_house_positions(houses) == HousesInto(<<>>, houses)

\* house_positions: (x, y, z) -> house id
HousePositions == build_house_positions(Houses)

\* item_stack_priority as main passes it
MapStackPriority == <<TableA>>

TownChoices == {<<>>, <<[id |-> 1, name |-> <<65>>, x |-> 256, y |-> 5, z |-> 7]>>}

\* sectors[(sx, sy, z)].extend(tiles): a new sector goes last, a tile of a
\* sector already present goes after that sector's tiles
SameSector(a, b) == a.sx = b.sx /\ a.sy = b.sy /\ a.z = b.z
ExtendSector(S, t) ==
    LET same == {i \in DOMAIN S : SameSector(S[i], t)}
    IN  IF same = {} THEN Append(S, t)
        ELSE LET j == CHOOSE i \in same : \A k \in same : k <= i
             IN  SubSeq(S, 1, j) \o <<t>> \o SubSeq(S, j + 1, Len(S))

\* new_x & 0xFF with the sector coordinate left in place of the area one
AreaLocal_in_sector(v) == v % SECTOR_SIZE

\* new_x & 0xFF, for v >= 0
AreaLocal(v) == v % 256

\* new_x & 0xFF00, for v >= 0
AreaBase(v) == ((v \div 256) % 256) * 256

\* areas[key].append(tile_record)
DictAppend(a, k, v) ==
    [x \in (DOMAIN a) \cup {k} |->
        IF x = k THEN (IF k \in DOMAIN a THEN Append(a[k], v) ELSE <<v>>) ELSE a[x]]

\* the tile_record without the house lookup
TileRecord_without_house(t, i) ==
    [x |-> AreaLocal(t.sx * SECTOR_SIZE + t.lx), y |-> AreaLocal(t.sy * SECTOR_SIZE + t.ly),
     items |-> t.items, map_flags |-> t.map_flags, src |-> i]

\* the tile_record of one tile entry; src is the position of the entry in
\* sectors, carried along to name the entry a tile node comes from
TileRecord(t, i) ==
    LET new_x == t.sx * SECTOR_SIZE + t.lx
        new_y == t.sy * SECTOR_SIZE + t.ly
        rec == [x |-> AreaLocal(new_x), y |-> AreaLocal(new_y), items |-> t.items,
                map_flags |-> t.map_flags, src |-> i]
    IN  IF <<new_x, new_y, t.z>> \in DOMAIN HousePositions
        THEN DictSet(rec, "house_id", HousePositions[<<new_x, new_y, t.z>>])
        ELSE rec

AreaKey(t) ==
    <<AreaBase(t.sx * SECTOR_SIZE + t.lx), AreaBase(t.sy * SECTOR_SIZE + t.ly), t.z>>

RECURSIVE GroupFrom(_, _, _)
\* "for (sx, sy, z), tiles in sectors.items(): for tile_entry in tiles: ..."
GroupFrom(a, S, i) ==
    IF i > Len(S) THEN a
    ELSE GroupFrom(DictAppend(a, AreaKey(S[i]), TileRecord(S[i], i)), S, i + 1)

KeyLess(a, b) ==
    \/ a[1] < b[1]
    \/ a[1] = b[1] /\ a[2] < b[2]
    \/ a[1] = b[1] /\ a[2] = b[2] /\ a[3] < b[3]

RECURSIVE SortedKeys(_)
\* the keys of sorted(areas.items())
SortedKeys(K) ==
    IF K = {} THEN <<>>
    ELSE LET m == CHOOSE k \in K : \A o \in K \ {k} : KeyLess(k, o)
         IN  <<m>> \o SortedKeys(K \ {m})

\* build_otbm_header
build_otbm_header(width, height) ==
    write_uint32(
        write_uint32(
            write_uint16(
                write_uint16(write_uint32(start_node(<<>>, OTBM_MAP_HEADER), 1), width),
                height),
            1),
        100)

\* the MAP_DATA node is opened and its three string attributes written
WriteMapDataStart(d, map_name) ==
    write_string(
        write_byte(
            write_string(
                write_byte(
                    write_string(
                        write_byte(start_node(d, OTBM_MAP_DATA), OTBM_ATTR_DESCRIPTION),
                        map_name),
                    OTBM_ATTR_EXT_SPAWN_FILE),
                map_name \o SpawnFileSuffix),
            OTBM_ATTR_EXT_HOUSE_FILE),
        map_name \o HouseFileSuffix)

\* the body of "for tile in tiles"
WriteTile(d, tile) ==
    IF tile.items = <<>> THEN d
    ELSE LET opened ==
                 IF Has(tile, "house_id")
                 THEN write_uint32(
                          write_byte(write_byte(start_node(d, OTBM_HOUSETILE), tile.x), tile.y),
                          tile.house_id)
                 ELSE write_byte(write_byte(start_node(d, OTBM_TILE), tile.x), tile.y)
             flagged ==
                 IF tile.map_flags # 0
                 THEN write_uint32(write_byte(opened, OTBM_ATTR_TILE_FLAGS), tile.map_flags)
                 ELSE opened
         IN  end_node(WriteChildren(flagged, ItemsToWrite(tile.items, MapStackPriority)))

RECURSIVE WriteTiles(_, _)
WriteTiles(d, tiles) ==
    IF tiles = <<>> THEN d ELSE WriteTiles(d \o WriteTile(<<>>, Head(tiles)), Tail(tiles))

RECURSIVE WriteAreas(_, _, _)
\* "for idx, ((bx, by, z), tiles) in enumerate(sorted(areas.items()))"
WriteAreas(d, keys, a) ==
    IF keys = <<>> THEN d
    ELSE LET k == Head(keys)
             opened == write_byte(
                           write_uint16(write_uint16(start_node(<<>>, OTBM_TILE_AREA), k[1]), k[2]),
                           k[3])
         IN  WriteAreas(d \o end_node(WriteTiles(opened, a[k])), Tail(keys), a)

\* one town node
WriteTown(d, t) ==
    end_node(
        write_byte(
            write_uint16(
                write_uint16(write_string(write_uint32(start_node(d, OTBM_TOWN), t.id), t.name),
                             t.x),
                t.y),
            t.z))

RECURSIVE WriteTownList(_, _)
WriteTownList(d, ts) ==
    IF ts = <<>> THEN d ELSE WriteTownList(d \o WriteTown(<<>>, Head(ts)), Tail(ts))

\* "if towns: ..."
WriteTowns(d, ts) ==
    IF ts = <<>> THEN d ELSE end_node(WriteTownList(start_node(d, OTBM_TOWNS), ts))

\* writer.data when convert_map_to_otbm opens the output file: the header
\* ("writer.data.extend(header)"), MAP_DATA with the areas and the towns, and
\* the one end_node of line 976
MapBytes(a, ts) ==
    end_node(
        build_otbm_header(65535, 65535)
        \o WriteMapDataStart(<<>>, MapName)
        \o WriteAreas(<<>>, SortedKeys(DOMAIN a), a)
        \o WriteTowns(<<>>, ts))

\* write_byte(z) raises ValueError for a floor outside 0..255, and so does
\* the liquid byte of an item; the other arguments are masked or clamped
MapWritable(a, ts) ==
    /\ \A k \in DOMAIN a :
           /\ k[3] \in 0..255
           /\ \A i \in DOMAIN a[k] :
                  \A j \in DOMAIN a[k][i].items : ItemWritable(a[k][i].items[j])
    /\ \A i \in DOMAIN ts : ts[i].z \in 0..255

RECURSIVE SourcesOf(_)
SourcesOf(tiles) ==
    IF tiles = <<>> THEN <<>>
    ELSE (IF Head(tiles).items = <<>> THEN <<>> ELSE <<Head(tiles).src>>)
         \o SourcesOf(Tail(tiles))

RECURSIVE EmitOrder(_, _)
\* the tile entries in the order their nodes are written
EmitOrder(keys, a) ==
    IF keys = <<>> THEN <<>> ELSE SourcesOf(a[Head(keys)]) \o EmitOrder(Tail(keys), a)

InitMap ==
    /\ sectors = <<>>
    /\ towns \in TownChoices
    /\ areas = <<>> /\ tilelog = <<>> /\ mpc = "load" /\ file = <<>>
    /\ IdleCodec /\ IdleItem /\ IdleStack /\ IdleSpawn /\ IdleUnpack /\ IdleMain /\ IdleReader /\ IdleOtb /\ IdleOtbFile /\ IdleContent /\ IdleTowns

\* load_all_sectors takes the tiles of one more tile line
LoadTile ==
    \E sx \in SectorXs, sy \in SectorYs, z \in Floors, lx \in LocalXs, ly \in LocalYs,
       c \in TileContents :
        /\ mpc = "load"
        /\ Len(sectors) < MaxTiles
        /\ sectors' = ExtendSector(sectors,
                          [sx |-> sx, sy |-> sy, z |-> z, lx |-> lx, ly |-> ly,
                           map_flags |-> c[1], items |-> c[2]])
        /\ UNCHANGED <<towns, areas, tilelog, mpc, file, notMap>>

\* convert_map_to_otbm with no sectors: "if not sectors: ... return"
ConvertNoSectors ==
    /\ mpc = "load"
    /\ sectors = <<>>
    /\ mpc' = "nofile"
    /\ UNCHANGED <<sectors, towns, areas, tilelog, file, notMap>>

\* convert_map_to_otbm with sectors: the file is b'OTBM' and the writer's
\* bytes; an exception on the way leaves no file
ConvertMap ==
    /\ mpc = "load"
    /\ sectors # <<>>
    /\ LET grouped == GroupFrom(<<>>, sectors, 1)
       IN  /\ areas' = grouped
           /\ IF MapWritable(grouped, towns)
              THEN /\ file' = <<79, 84, 66, 77>> \o MapBytes(grouped, towns)
                   /\ tilelog' = EmitOrder(SortedKeys(DOMAIN grouped), grouped)
                   /\ mpc' = "done"
              ELSE /\ file' = <<>>
                   /\ tilelog' = <<>>
                   /\ mpc' = "crashed"
    /\ UNCHANGED <<sectors, towns, notMap>>

NextMap ==
    \/ LoadTile
    \/ ConvertNoSectors
    \/ ConvertMap

SpecMap == InitMap /\ [][NextMap]_vars

RECURSIVE IsEscaped(_, _)
\* the byte at position i of a buffer follows an escape byte that is not
\* itself escaped
IsEscaped(d, i) == i > 1 /\ d[i - 1] = 253 /\ ~IsEscaped(d, i - 1)

\* the unescaped start and end markers of a buffer
NumStarts(d) == Cardinality({i \in DOMAIN d : d[i] = 254 /\ ~IsEscaped(d, i)})
NumEnds(d) == Cardinality({i \in DOMAIN d : d[i] = 255 /\ ~IsEscaped(d, i)})

\* C1: a map file that was written holds as many unescaped 0xFE start
\* markers as unescaped 0xFF end markers.
C1_NodeBalance ==
    mpc = "done" => NumStarts(file) = NumEnds(file)

\* the positions where a node with the given tag starts
NodeStarts(d, tag) ==
    {i \in 1..(Len(d) - 1) : d[i] = 254 /\ ~IsEscaped(d, i) /\ d[i + 1] = tag}

\* the value at position pos with its escape removed, and the next position
ValueAt(d, pos) == IF d[pos] = 253 THEN <<d[pos + 1], pos + 2>> ELSE <<d[pos], pos + 1>>

\* [base_x:u16][base_y:u16][z:u8] of the TileArea node that starts at j
DecodeArea(d, j) ==
    LET x0 == ValueAt(d, j + 2)
        x1 == ValueAt(d, x0[2])
        y0 == ValueAt(d, x1[2])
        y1 == ValueAt(d, y0[2])
        z0 == ValueAt(d, y1[2])
    IN  <<x0[1] + 256 * x1[1], y0[1] + 256 * y1[1], z0[1]>>

\* the Tile and HouseTile nodes of a file in file order, each with the base
\* and floor declared by the TileArea that encloses it, the last one that
\* starts before it, and its own local coordinates
DecodeTiles(d) ==
    LET tileStarts == NodeStarts(d, 5) \cup NodeStarts(d, 14)
        areaStarts == NodeStarts(d, 4)
    IN  [k \in 1..Cardinality(tileStarts) |->
            LET i == CHOOSE p \in tileStarts :
                         Cardinality({q \in tileStarts : q < p}) = k - 1
                j == CHOOSE p \in areaStarts :
                         p < i /\ \A q \in areaStarts : q < i => q <= p
                area == DecodeArea(d, j)
                x0 == ValueAt(d, i + 2)
                y0 == ValueAt(d, x0[2])
            IN  [bx |-> area[1], by |-> area[2], z |-> area[3], x |-> x0[1], y |-> y0[1]]]

AbsX(t) == t.sx * 32 + t.lx
AbsY(t) == t.sy * 32 + t.ly

LimbSpread == 3

notUnpack == <<codecVars, itemVars, stackVars, mapVars, spawnVars, mainVars, readerVars, otbVars, otbFileVars, contentVars, townsVars>>

\* upper and lower halves tried: runs of LimbSpread + 1 values around the
\* powers of two, the halves of 2147744263 (32771, 64007), negative and
\* 33-bit arguments
UpperHalves ==
    UNION {{b + k : k \in 0..LimbSpread} : b \in {-32768, -4, 0, 16380, 32768, 65528}}
    \cup {32771, 65535, 65536, 65539}
LowerHalves ==
    UNION {{b + k : k \in 0..LimbSpread} : b \in {0, 12, 4092, 65528}}
    \cup {64007, 65535}

InitUnpack ==
    /\ packed \in {<<q, r>> : q \in UpperHalves, r \in LowerHalves}
    /\ unpacked = <<>>
    /\ upc = "start"
    /\ IdleCodec /\ IdleItem /\ IdleStack /\ IdleMap /\ IdleSpawn /\ IdleMain /\ IdleReader /\ IdleOtb /\ IdleOtbFile /\ IdleContent /\ IdleTowns

\* _unpack_absolute_coordinate(packed)
Unpack ==
    /\ upc = "start"
    /\ LET p == Mask32(packed[1], packed[2])
       IN  unpacked' = UnpackLimbs(p[1], p[2])
    /\ upc' = "done"
    /\ UNCHANGED <<packed, notUnpack>>

NextUnpack == Unpack

SpecUnpack == InitUnpack /\ [][NextUnpack]_vars

\* (p >> 18) & 0x3FFF, (p >> 4) & 0x3FFF and p & 0xF of the int q * 65536 + r,
\* by floor division of the unmasked value
DocShift18(q, r) == (q \div 4) % 16384
DocShift4(q, r) == (q * 4096 + r \div 16) % 16384
DocLow4(q, r) == r % 16

\* the natural inverse: subtract 24576, mask, shift, OR; as <<q, r>>
DocPack(x, y, z) ==
    LET xs == (x - 24576) % 16384
        ys == (y - 24576) % 16384
        zs == z % 16
    IN  <<xs * 4 + ys \div 4096, (ys % 4096) * 16 + zs>>

\* C11: for every packed p the unpacker returns x = ((p >> 18) & 0x3FFF) +
\* 24576, y = ((p >> 4) & 0x3FFF) + 24576, z = p & 0xF; for every p in
\* 0 .. 2^32 - 1 packing the result gives p back; and 2147744263
\* (32771 * 65536 + 64007) unpacks to (32768, 40864, 7).
C11_UnpackLaw ==
    upc = "done" =>
        /\ unpacked = <<DocShift18(packed[1], packed[2]) + 24576,
                        DocShift4(packed[1], packed[2]) + 24576,
                        DocLow4(packed[1], packed[2])>>
        /\ packed[1] \in 0..65535 =>
               DocPack(unpacked[1], unpacked[2], unpacked[3]) = packed
        /\ packed = <<32771, 64007>> => unpacked = <<32768, 40864, 7>>

C11_Witness ==
    upc = "done" /\ packed = <<32771, 64007>> /\ unpacked = <<32768, 40864, 7>>

Clamp(v, lo, hi) == Min(hi, Max(lo, v))

\* C12: a value out of range for its fixed-width field is clamped silently,
\* neither wrapped nor rejected: every map is written, and each tile node is
\* at its absolute x and y clamped to [0, 65535] on its floor clamped to
\* [0, 15].
C12_MapFieldsClamped ==
    mpc \in {"done", "crashed"} =>
        /\ mpc = "done"
        /\ LET E == DecodeTiles(file)
           IN  /\ Len(E) = Len(tilelog)
               /\ \A k \in DOMAIN E :
                      LET t == sectors[tilelog[k]]
                      IN  /\ E[k].bx + E[k].x = Clamp(AbsX(t), 0, 65535)
                          /\ E[k].by + E[k].y = Clamp(AbsY(t), 0, 65535)
                          /\ E[k].z = Clamp(t.z, 0, 15)

\* the item half of C12: every item is written, its Count payload is the
\* translated liquid subtype or the count clamped to [0, 255]
C12_ItemCountClamped ==
    ipc \in {"written", "crashed"} =>
        /\ ipc = "written"
        /\ Has(item_data, "liquid_type") =>
               Tokens(ibuf)[6] = Clamp(DocLiquid(item_data.liquid_type), 0, 255)
        /\ (Has(item_data, "count") /\ ~Has(item_data, "liquid_type")) =>
               Tokens(ibuf)[6] = Clamp(item_data.count, 0, 255)

\* the tag and, for a HouseTile, the u32 after the local coordinates, of the
\* Tile and HouseTile nodes of a file in file order
DecodeTileKinds(d) ==
    LET tileStarts == NodeStarts(d, 5) \cup NodeStarts(d, 14)
    IN  [k \in 1..Cardinality(tileStarts) |->
            LET i == CHOOSE p \in tileStarts :
                         Cardinality({q \in tileStarts : q < p}) = k - 1
                x0 == ValueAt(d, i + 2)
                y0 == ValueAt(d, x0[2])
                h0 == ValueAt(d, y0[2])
                h1 == ValueAt(d, h0[2])
                h2 == ValueAt(d, h1[2])
                h3 == ValueAt(d, h2[2])
            IN  [tag |-> d[i + 1],
                 house |-> IF d[i + 1] = 14
                           THEN h0[1] + 256 * h1[1] + 65536 * h2[1] + 16777216 * h3[1]
                           ELSE 0]]

\* the id of the house whose Fields list the position, 0 when none does
HouseListing(pos) ==
    LET listing == {h \in DOMAIN Houses :
                        \E j \in DOMAIN Houses[h].tiles : Houses[h].tiles[j] = pos}
    IN  IF listing = {} THEN 0 ELSE Houses[CHOOSE h \in listing : TRUE].id

Chebyshev(off) == IF Abs(off[1]) > Abs(off[2]) THEN Abs(off[1]) ELSE Abs(off[2])
LargestOffset(offs) ==
    LET M == {Chebyshev(offs[k]) : k \in DOMAIN offs}
    IN  CHOOSE m \in M : \A n \in M : n <= m

\* C14: every emitted monster region has radius max(1, largest max(|dx|, |dy|)
\* of its placed creatures), and every creature offset of the region is
\* within that radius of the emitted center.
C14_MonsterRadius ==
    \A i \in DOMAIN spawns :
        spawns[i].kind = "monster" =>
            /\ spawns[i].offsets # <<>>
            /\ spawns[i].radius =
                   (IF LargestOffset(spawns[i].offsets) > 1
                    THEN LargestOffset(spawns[i].offsets) ELSE 1)
            /\ \A k \in DOMAIN spawns[i].offsets :
                   /\ Abs(spawns[i].offsets[k][1]) <= spawns[i].radius
                   /\ Abs(spawns[i].offsets[k][2]) <= spawns[i].radius

C14_Witness ==
    \E i, j \in DOMAIN spawns :
        /\ spawns[i].kind = "monster" /\ spawns[i].radius = 2
        /\ Len(spawns[i].offsets) = 2
        /\ spawns[j].kind = "monster" /\ spawns[j].radius = 1
        /\ spawns[j].offsets = <<<<0, 0>>>>

\* a key with the case of the documented spelling
DocSpelling(key) == IF key = "AMOUNT" THEN "Amount" ELSE key

DocDiscardedKeys == {"RemainingExpireTime", "SavedExpireTime", "RemainingUses"}

\* the documented field of a recognized key
DocField(key) ==
    CASE key \in {"ChestQuestNumber", "KeyholeNumber", "DoorQuestNumber", "Level"} -> "actionid"
      [] key \in {"KeyNumber", "DoorQuestValue"} -> "uniqueid"
      [] key = "Amount" -> "count"
      [] key = "Charges" -> "charges"
      [] key \in {"ContainerLiquidType", "PoolLiquidType"} -> "liquid_type"
      [] key = "AbsTeleportDestination" -> "teleport_dest"
      [] OTHER -> ""

\* what one Key=Value part does according to the key table: a recognized key
\* with an integer value sets its field (the teleport destination unpacked)
\* and nothing else; a discarded key sets nothing and is not logged
DocPartEffect ==
    LET key == DocSpelling(part'[1])
        v == part'[2]
    IN  /\ key \in DocDiscardedKeys => item_data' = item_data /\ log' = log
        /\ (DocField(key) # "" /\ v # <<>>) =>
               item_data' = DictSet(item_data, DocField(key),
                                IF key = "AbsTeleportDestination"
                                THEN unpack_absolute_coordinate(v[1]) ELSE v[1])
        /\ (DocField(key) # "" /\ v = <<>>) => item_data' = item_data

IsPartStep == ipc = "parse" /\ iparts' = iparts + 1

\* C15: every Key=Value part of an item spec acts as the key table says, with
\* key names compared without regard to case, and no part changes the type id
\* of the item.
C15_KeyMapping ==
    [][IsPartStep => (DocPartEffect /\ item_data'.id = item_data.id)]_vars

\* the key table alone, without the clause on the type id
C15_RecognizedKeys ==
    [][IsPartStep => DocPartEffect]_vars

(***************************************************************************)
(* SpecMain: sec_to_otbm.main over a game data folder.  A sector file is   *)
(* its name stem split at '-' and its lines; a token is <<n>> when int()   *)
(* accepts it and <<>> when int() raises ValueError.  houses.dat is a      *)
(* sequence of lines [k, v, tiles].                                        *)
(***************************************************************************)
MaxHouseLines == 3
MaxHouses == 4

notMain == <<codecVars, itemVars, stackVars, mapVars, spawnVars, unpackVars, readerVars, otbVars, otbFileVars, contentVars, townsVars>>

\* lines of a sector file: "1-2: Content={..}", "3-4: Content={..}",
\* "x-2: Content={..}", "5: Content={..}", "5-6: Content={.." (brace left open),
\* "7-8: Content={}" and "# comment"
LineA == [coords |-> <<<<1>>, <<2>>>>, content |-> "items"]
LineB == [coords |-> <<<<3>>, <<4>>>>, content |-> "items"]
LineBadCoord == [coords |-> <<<<>>, <<2>>>>, content |-> "items"]
LineOneCoord == [coords |-> <<<<5>>>>, content |-> "items"]
LineOpenBrace == [coords |-> <<<<5>>, <<6>>>>, content |-> "unbalanced"]
LineNoItems == [coords |-> <<<<7>>, <<8>>>>, content |-> "empty"]
LineComment == [coords |-> <<>>, content |-> "none"]

\* sector files 0007-0000-07.sec, 0008-0000-07.sec, 0007-0000.sec, abcd-0000-07.sec
\* and 0009-0000-07.sec
FileMixed == [stem |-> <<<<7>>, <<0>>, <<7>>>>, lines |-> <<LineA, LineBadCoord, LineB>>]
FileOpenBrace == [stem |-> <<<<8>>, <<0>>, <<7>>>>, lines |-> <<LineOpenBrace, LineComment, LineA>>]
FileShortName == [stem |-> <<<<7>>, <<0>>>>, lines |-> <<LineA>>]
FileBadName == [stem |-> <<<<>>, <<0>>, <<7>>>>, lines |-> <<LineB>>]
FileNoTiles == [stem |-> <<<<9>>, <<0>>, <<7>>>>, lines |-> <<LineOneCoord, LineNoItems>>]

SecDirChoices ==
    {<<>>, <<FileMixed>>, <<FileShortName, FileOpenBrace>>,
     <<FileMixed, FileBadName, FileOpenBrace>>, <<FileNoTiles>>,
     <<FileNoTiles, FileMixed>>}

\* lines of houses.dat: "ID = 3", "ID = 4", "ID = x", "RentOffset = 100",
\* "RentOffset = x", "Fields = {[256,5,7]}" and the empty line
HouseLineChoices ==
    {[k |-> "ID", v |-> <<3>>, tiles |-> <<>>],
     [k |-> "ID", v |-> <<4>>, tiles |-> <<>>],
     [k |-> "ID", v |-> <<>>, tiles |-> <<>>],
     [k |-> "RentOffset", v |-> <<100>>, tiles |-> <<>>],
     [k |-> "RentOffset", v |-> <<>>, tiles |-> <<>>],
     [k |-> "Fields", v |-> <<>>, tiles |-> <<<<256, 5, 7>>>>],
     [k |-> "", v |-> <<>>, tiles |-> <<>>]}

HouseFiles == UNION {[1..n -> HouseLineChoices] : n \in 0..MaxHouseLines}

\* a folder without its map directory has no sector files; a folder that
\* does not exist has nothing
GameChoices ==
    {[root |-> FALSE, map |-> FALSE, objects |-> FALSE, houses |-> <<>>, sec |-> <<>>]}
    \cup {[root |-> TRUE, map |-> FALSE, objects |-> o, houses |-> <<>>, sec |-> <<>>] :
              o \in BOOLEAN}
    \cup {[root |-> TRUE, map |-> TRUE, objects |-> o, houses |-> h, sec |-> d] :
              o \in BOOLEAN, h \in {<<>>} \cup {<<f>> : f \in HouseFiles},
              d \in SecDirChoices}

\* parse_sec_file, one line: <<>> when the line is skipped, else the tile
TileOfLine(line) ==
    IF line.content = "none" THEN <<>>
    ELSE IF Len(line.coords) # 2 \/ \E c \in 1..Len(line.coords) : line.coords[c] = <<>>
    THEN <<>>
    ELSE IF line.content \in {"unbalanced", "empty"} THEN <<>>
    ELSE <<[lx |-> line.coords[1][1], ly |-> line.coords[2][1]]>>

RECURSIVE parse_sec_file(_)
parse_sec_file(lines) ==
    IF lines = <<>> THEN <<>>
    ELSE TileOfLine(Head(lines)) \o parse_sec_file(Tail(lines))

\* load_all_sectors, the try block of one file: <<>> when the file is skipped
SectorOfFile(f) ==
    IF Len(f.stem) < 3 \/ \E c \in 1..3 : f.stem[c] = <<>> THEN <<>>
    ELSE LET tiles == parse_sec_file(f.lines)
         IN  IF tiles = <<>> THEN <<>>
             ELSE <<[sx |-> f.stem[1][1], sy |-> f.stem[2][1], z |-> f.stem[3][1],
                     tiles |-> tiles]>>

InitMain ==
    /\ game \in GameChoices
    /\ sec_loaded = <<>> /\ sec_idx = 0
    /\ houses_out = <<>> /\ house_cur = <<>> /\ house_i = 0
    /\ otbm_out = <<>> /\ exit_code = <<>>
    /\ mainpc = "start"
    /\ IdleCodec /\ IdleItem /\ IdleStack /\ IdleMap /\ IdleSpawn /\ IdleUnpack /\ IdleReader /\ IdleOtb /\ IdleOtbFile /\ IdleContent /\ IdleTowns

\* main: the two path checks
CheckPaths ==
    /\ mainpc = "start"
    /\ IF ~game.root \/ ~game.map
       THEN /\ exit_code' = <<1>>
            /\ mainpc' = "exited"
            /\ UNCHANGED sec_idx
       ELSE /\ mainpc' = "sectors"
            /\ sec_idx' = 1
            /\ UNCHANGED exit_code
    /\ UNCHANGED <<game, sec_loaded, houses_out, house_cur, house_i, otbm_out, notMain>>

\* load_all_sectors: one iteration of the loop over the sector files
LoadSector ==
    /\ mainpc = "sectors"
    /\ sec_idx <= Len(game.sec)
    /\ sec_loaded' = sec_loaded \o SectorOfFile(game.sec[sec_idx])
    /\ sec_idx' = sec_idx + 1
    /\ UNCHANGED <<game, houses_out, house_cur, house_i, otbm_out, exit_code, mainpc, notMain>>

\* main after load_all_sectors: leave when no sector has tiles, else go on
\* to houses.dat when it exists
SectorsLoaded ==
    /\ mainpc = "sectors"
    /\ sec_idx > Len(game.sec)
    /\ IF sec_loaded = <<>>
       THEN /\ exit_code' = <<1>>
            /\ mainpc' = "exited"
            /\ UNCHANGED house_i
       ELSE IF game.houses # <<>>
       THEN /\ mainpc' = "houses_outer"
            /\ house_i' = 1
            /\ UNCHANGED exit_code
       ELSE /\ mainpc' = "convert"
            /\ UNCHANGED <<exit_code, house_i>>
    /\ UNCHANGED <<game, sec_loaded, sec_idx, houses_out, house_cur, otbm_out, notMain>>

\* parse_houses_dat: one iteration of the outer while loop up to the entry
\* of the inner loop
HouseOuter ==
    /\ mainpc = "houses_outer"
    /\ LET lines == game.houses[1]
       IN  IF house_i > Len(lines)
           THEN /\ mainpc' = "convert"
                /\ UNCHANGED <<house_i, house_cur>>
           ELSE IF lines[house_i].k = "ID" /\ lines[house_i].v # <<>>
           THEN /\ house_cur' = <<[id |-> lines[house_i].v[1], rent |-> <<>>, tiles |-> <<>>]>>
                /\ house_i' = house_i + 1
                /\ mainpc' = "houses_inner"
           ELSE /\ house_i' = house_i + 1
                /\ UNCHANGED <<house_cur, mainpc>>
    /\ UNCHANGED <<game, sec_loaded, sec_idx, houses_out, otbm_out, exit_code, notMain>>

\* parse_houses_dat: one iteration of the inner while loop; int() of a
\* RentOffset value is outside any try, and main calls the parser outside
\* any try, so a ValueError there ends the process with a traceback
HouseInner ==
    /\ mainpc = "houses_inner"
    /\ Len(houses_out) < MaxHouses
    /\ LET lines == game.houses[1]
           line == lines[house_i]
           h == house_cur[1]
       IN  IF house_i > Len(lines)
           THEN /\ houses_out' = Append(houses_out, h)
                /\ house_cur' = <<>>
                /\ mainpc' = "houses_outer"
                /\ UNCHANGED <<house_i, exit_code>>
           ELSE IF line.k = "ID"
           THEN /\ house_i' = house_i - 1
                /\ houses_out' = Append(houses_out, h)
                /\ house_cur' = <<>>
                /\ mainpc' = "houses_outer"
                /\ UNCHANGED exit_code
           ELSE IF line.k = "RentOffset" /\ line.v = <<>>
           THEN /\ exit_code' = <<1>>
                /\ mainpc' = "raised"
                /\ UNCHANGED <<house_i, houses_out, house_cur>>
           ELSE IF line.k = ""
           THEN /\ house_i' = house_i + 1
                /\ houses_out' = Append(houses_out, h)
                /\ house_cur' = <<>>
                /\ mainpc' = "houses_outer"
                /\ UNCHANGED exit_code
           ELSE /\ house_cur' =
                       <<IF line.k = "RentOffset" THEN [h EXCEPT !.rent = line.v]
                         ELSE [h EXCEPT !.tiles = line.tiles]>>
                /\ house_i' = house_i + 1
                /\ UNCHANGED <<houses_out, mainpc, exit_code>>
    /\ UNCHANGED <<game, sec_loaded, sec_idx, otbm_out, notMain>>

\* main from build_house_positions to the end: the stack priority table is
\* loaded when objects.srv exists and is None otherwise, the map is written
\* from the loaded sectors, and main returns
Convert ==
    /\ mainpc = "convert"
    /\ otbm_out' = <<[sectors |-> sec_loaded,
                      house_positions |-> build_house_positions(houses_out),
                      item_stack_priority |-> game.objects]>>
    /\ exit_code' = <<0>>
    /\ mainpc' = "exited"
    /\ UNCHANGED <<game, sec_loaded, sec_idx, houses_out, house_cur, house_i, notMain>>

NextMain == CheckPaths \/ LoadSector \/ SectorsLoaded \/ HouseOuter \/ HouseInner \/ Convert

SpecMain == InitMain /\ [][NextMain]_vars

\* ---- claims about the load phase and the exit ----

\* a tile line "lx-ly: Content={items}" with two integers and a closed,
\* non-empty item list
DocWellFormedLine(line) ==
    /\ line.content = "items"
    /\ Len(line.coords) = 2
    /\ line.coords[1] # <<>> /\ line.coords[2] # <<>>

\* a sector file named <sx>-<sy>-<z> with three integers
DocWellNamed(f) ==
    /\ Len(f.stem) = 3
    /\ \A c \in 1..3 : f.stem[c] # <<>>

\* the tiles of the well-formed lines of the well-named files, as
\* <<sx, sy, z, lx, ly>>
DocWellFormedTiles ==
    {<<f.stem[1][1], f.stem[2][1], f.stem[3][1], f.lines[n].coords[1][1], f.lines[n].coords[2][1]>> :
        <<f, n>> \in {<<g, m>> \in Range(game.sec) \X (1..3) :
                          /\ DocWellNamed(g)
                          /\ m <= Len(g.lines)
                          /\ DocWellFormedLine(g.lines[m])}}

\* the end of the house block that starts at line b: the next empty line or
\* ID line, or the end of the file
BlockEnd(lines, b) ==
    LET stops == {e \in (b + 1)..Len(lines) : lines[e].k \in {"", "ID"}}
    IN  IF stops = {} THEN Len(lines) + 1
        ELSE CHOOSE e \in stops : \A o \in stops : e <= o

\* the ids of the house blocks whose ID and fields all parse
DocWellFormedHouses ==
    IF game.houses = <<>> THEN {}
    ELSE LET lines == game.houses[1]
         IN  {lines[b].v[1] :
                 b \in {c \in 1..Len(lines) :
                           /\ lines[c].k = "ID" /\ lines[c].v # <<>>
                           /\ \A e \in (c + 1)..(BlockEnd(lines, c) - 1) :
                                  lines[e].k = "RentOffset" => lines[e].v # <<>>}}

OutTiles ==
    IF otbm_out = <<>> THEN {}
    ELSE LET secs == otbm_out[1].sectors
         IN  {<<secs[i].sx, secs[i].sy, secs[i].z, secs[i].tiles[n].lx, secs[i].tiles[n].ly>> :
                 <<i, n>> \in {<<j, m>> \in (1..Len(secs)) \X (1..3) : m <= Len(secs[j].tiles)}}

\* C16: no malformed record aborts the run, and once the run has ended every
\* well-formed tile line of every well-named sector file is in the written
\* map and every well-formed house block is among the parsed houses.
C16_MalformedSkipped ==
    /\ mainpc # "raised"
    /\ (mainpc = "exited" /\ game.root /\ game.map) =>
           /\ DocWellFormedTiles \subseteq OutTiles
           /\ DocWellFormedTiles # {} =>
                  DocWellFormedHouses \subseteq {houses_out[i].id : i \in 1..Len(houses_out)}

\* the sector side alone: malformed tile lines and sector files are skipped
\* and the well-formed ones reach the map whenever the run ends normally
C16_SectorRecordsKept ==
    (mainpc = "exited" /\ game.root /\ game.map) =>
        /\ DocWellFormedTiles \subseteq OutTiles
        /\ OutTiles \subseteq DocWellFormedTiles

\* the house side alone, for the runs that end normally
C16_HouseBlocksKept ==
    otbm_out # <<>> =>
        DocWellFormedHouses \subseteq {houses_out[i].id : i \in 1..Len(houses_out)}

\* C17: the run ends with a non-zero exit code and no map whenever the game
\* data root, the map directory or dat/objects.srv is absent, and with exit
\* code 0 otherwise.
C17_ExitCodes ==
    exit_code # <<>> =>
        IF ~game.root \/ ~game.map \/ ~game.objects
        THEN exit_code # <<0>> /\ otbm_out = <<>>
        ELSE exit_code = <<0>>

\* the part on the object catalog alone
C17_CatalogMandatory ==
    (exit_code # <<>> /\ ~game.objects) => (exit_code # <<0>> /\ otbm_out = <<>>)

\* the part on the two directories alone
C17_MissingDirectories ==
    (exit_code # <<>> /\ (~game.root \/ ~game.map)) =>
        exit_code = <<1>> /\ otbm_out = <<>>

(***************************************************************************)
(* SpecReader: otbm_to_sec.convert_otbm_to_secs over one input file.  The  *)
(* file is a map of one tile area with one tile, written node by node, and *)
(* then left whole, cut short, or extended by a stray byte.                *)
(***************************************************************************)
MaxReadItems == 2

notReader == <<codecVars, itemVars, stackVars, mapVars, spawnVars, unpackVars, mainVars, otbVars, otbFileVars, contentVars, townsVars>>

READ_HOUSETILE == 10
OTBM_ATTR_ITEM == 9

\* load_valid_ids: the TypeIDs of objects.srv
valid_server_ids == {100, 254}

ReadItemIds == {100, 254, 777}

ReadItemLists == UNION {[1..n -> ReadItemIds] : n \in 0..MaxReadItems}

\* a tile as an editor saves it: node type Tile or HouseTile (14), optional
\* tile flags, optional ground as an item attribute, item nodes
ReadTiles ==
    {[house |-> h, flags |-> f, ground |-> g, items |-> l] :
        h \in BOOLEAN, f \in {0, 9}, g \in {<<>>, <<100>>, <<777>>}, l \in ReadItemLists}

RECURSIVE WriteItemNodes(_, _)
WriteItemNodes(d, ids) ==
    IF ids = <<>> THEN d
    ELSE WriteItemNodes(end_node(write_uint16(start_node(d, OTBM_ITEM), Head(ids))), Tail(ids))

\* the whole file: 4 identifier bytes, root, map data, one area at
\* (256, 256, 7) and the tile at local (3, 4)
MapFile(t) ==
    LET area == write_byte(write_uint16(write_uint16(
                    start_node(start_node(start_node(<<0, 0, 0, 0>>, OTBM_MAP_HEADER),
                                          OTBM_MAP_DATA), OTBM_TILE_AREA), 256), 256), 7)
        opened == IF t.house
                  THEN write_uint32(write_byte(write_byte(start_node(area, OTBM_HOUSETILE), 3), 4), 3)
                  ELSE write_byte(write_byte(start_node(area, OTBM_TILE), 3), 4)
        flagged == IF t.flags # 0
                   THEN write_uint32(write_byte(opened, OTBM_ATTR_TILE_FLAGS), t.flags)
                   ELSE opened
        grounded == IF t.ground # <<>>
                    THEN write_uint16(write_byte(flagged, OTBM_ATTR_ITEM), t.ground[1])
                    ELSE flagged
    IN  end_node(end_node(end_node(end_node(WriteItemNodes(grounded, t.items)))))

\* what happened to the file after it was written
Damaged(d, dmg) ==
    IF dmg.kind = "cut" THEN SubSeq(d, 1, dmg.at)
    ELSE IF dmg.kind = "stray_close" THEN Append(d, NODE_TERM)
    ELSE IF dmg.kind = "stray_escape" THEN Append(d, NODE_ESC)
    ELSE d

ReadMaps ==
    {[tile |-> t, damage |-> dmg] :
        t \in ReadTiles,
        dmg \in {[kind |-> k, at |-> 0] : k \in {"none", "stray_close", "stray_escape"}}
                \cup {[kind |-> "cut", at |-> n] : n \in 4..64}}

\* otbm_to_sec.read_uint16_escape: <<value, pos>>, value = <<>> for None
read_uint16_escape(d, pos) ==
    LET r1 == read_byte_escape(d, pos)
        r2 == read_byte_escape(d, r1[2])
    IN  IF r1[1] = <<>> THEN <<<<>>, r1[2]>>
        ELSE IF r2[1] = <<>> THEN <<<<>>, r2[2]>>
        ELSE <<<<r1[1][1] + r2[1][1] * 256>>, r2[2]>>

RECURSIVE PeekGround(_, _)
\* the peek loop of a tile node: <<>> when it stops without an id, else
\* <<id>> with the optional id read after the first byte of value 9
PeekGround(d, temp_i) ==
    IF temp_i >= Len(d) THEN <<>>
    ELSE IF d[temp_i + 1] = NODE_ESC THEN PeekGround(d, temp_i + 2)
    ELSE IF d[temp_i + 1] \in {NODE_INIT, NODE_TERM} THEN <<>>
    ELSE IF d[temp_i + 1] = OTBM_ATTR_ITEM THEN <<read_uint16_escape(d, temp_i + 1)[1]>>
    ELSE PeekGround(d, temp_i + 1)

\* get_valid_type_id: the id when it is in objects.srv, else None
get_valid_type_id(type_id) ==
    IF type_id # <<>> /\ type_id[1] \in valid_server_ids THEN type_id ELSE <<>>

\* the ids get_valid_type_id adds to invalid_unique for one call
InvalidAdded(type_id) ==
    IF type_id # <<>> /\ type_id[1] \in valid_server_ids THEN {} ELSE {type_id}

\* the truth value Python gives an optional id
Truthy(type_id) == type_id # <<>> /\ type_id[1] # 0

InitReader ==
    /\ rmap \in ReadMaps
    /\ rmap.damage.kind = "cut" => rmap.damage.at < Len(MapFile(rmap.tile))
    /\ otbm = Damaged(MapFile(rmap.tile), rmap.damage)
    /\ ri = 4 /\ rdepth = 0
    /\ current_area = <<>> /\ tile_stack = <<>> /\ buckets = <<>>
    /\ invalid_unique = {}
    /\ rpc = "read"
    /\ IdleCodec /\ IdleItem /\ IdleStack /\ IdleMap /\ IdleSpawn /\ IdleUnpack /\ IdleMain /\ IdleOtb /\ IdleOtbFile /\ IdleContent /\ IdleTowns

\* one iteration of the main loop on an escape byte or a plain byte
ReadOther ==
    /\ rpc = "read" /\ ri < Len(otbm)
    /\ otbm[ri + 1] \notin {NODE_INIT, NODE_TERM}
    /\ ri' = IF otbm[ri + 1] = NODE_ESC THEN ri + 2 ELSE ri + 1
    /\ UNCHANGED <<rmap, otbm, rdepth, current_area, tile_stack, buckets, invalid_unique, rpc, notReader>>

\* one iteration of the main loop on a node start
ReadNodeStart ==
    /\ rpc = "read" /\ ri < Len(otbm)
    /\ otbm[ri + 1] = NODE_INIT
    /\ rdepth' = rdepth + 1
    /\ IF ri + 1 >= Len(otbm)
       THEN /\ ri' = ri + 1
            /\ UNCHANGED <<current_area, tile_stack, invalid_unique, rpc>>
       ELSE LET node_type == otbm[ri + 2]
                at == ri + 2
            IN  IF node_type = OTBM_TILE_AREA
                THEN LET bx == read_uint16_escape(otbm, at)
                         by == read_uint16_escape(otbm, bx[2])
                         z == read_byte_escape(otbm, by[2])
                     IN  /\ current_area' = <<[base_x |-> bx[1], base_y |-> by[1], z |-> z[1]]>>
                         /\ ri' = z[2]
                         /\ UNCHANGED <<tile_stack, invalid_unique, rpc>>
                ELSE IF node_type \in {OTBM_TILE, READ_HOUSETILE}
                THEN LET tx == read_byte_escape(otbm, at)
                         ty == read_byte_escape(otbm, tx[2])
                     IN  IF \/ current_area = <<>>
                            \/ tx[1] = <<>> \/ ty[1] = <<>>
                            \/ current_area[1].base_x = <<>> \/ current_area[1].base_y = <<>>
                         THEN \* UnboundLocalError, or TypeError on None + int
                              /\ rpc' = "raised"
                              /\ ri' = ty[2]
                              /\ UNCHANGED <<current_area, tile_stack, invalid_unique>>
                         ELSE LET abs_x == current_area[1].base_x[1] + tx[1][1]
                                  abs_y == current_area[1].base_y[1] + ty[1][1]
                                  peek == PeekGround(otbm, ty[2])
                                  ground == IF peek = <<>> THEN <<>> ELSE get_valid_type_id(peek[1])
                              IN  /\ invalid_unique' = invalid_unique \cup
                                         (IF peek = <<>> THEN {} ELSE InvalidAdded(peek[1]))
                                  /\ tile_stack' = Append(tile_stack,
                                         [depth |-> rdepth + 1,
                                          sx |-> abs_x \div SECTOR_SIZE, sy |-> abs_y \div SECTOR_SIZE,
                                          z |-> current_area[1].z,
                                          lx |-> abs_x % SECTOR_SIZE, ly |-> abs_y % SECTOR_SIZE,
                                          ground_id |-> ground, items |-> <<>>])
                                  /\ ri' = ty[2]
                                  /\ UNCHANGED <<current_area, rpc>>
                ELSE IF node_type = OTBM_ITEM
                THEN LET id == read_uint16_escape(otbm, at)
                         inside == tile_stack # <<>> /\ rdepth + 1 > tile_stack[Len(tile_stack)].depth
                         valid == get_valid_type_id(id[1])
                     IN  /\ ri' = id[2]
                         /\ invalid_unique' = invalid_unique \cup
                                (IF inside THEN InvalidAdded(id[1]) ELSE {})
                         /\ tile_stack' =
                                IF inside /\ Truthy(valid)
                                THEN [tile_stack EXCEPT ![Len(tile_stack)].items = Append(@, valid[1])]
                                ELSE tile_stack
                         /\ UNCHANGED <<current_area, rpc>>
                ELSE /\ ri' = at
                     /\ UNCHANGED <<current_area, tile_stack, invalid_unique, rpc>>
    /\ UNCHANGED <<rmap, otbm, buckets, notReader>>

\* one iteration of the main loop on a node end
ReadNodeEnd ==
    /\ rpc = "read" /\ ri < Len(otbm)
    /\ otbm[ri + 1] = NODE_TERM
    /\ IF tile_stack # <<>> /\ rdepth = tile_stack[Len(tile_stack)].depth
       THEN LET t == tile_stack[Len(tile_stack)]
                contents == (IF Truthy(t.ground_id) THEN <<t.ground_id[1]>> ELSE <<>>) \o t.items
            IN  /\ tile_stack' = SubSeq(tile_stack, 1, Len(tile_stack) - 1)
                /\ buckets' = IF contents # <<>>
                              THEN Append(buckets, [sx |-> t.sx, sy |-> t.sy, z |-> t.z,
                                                    lx |-> t.lx, ly |-> t.ly, contents |-> contents])
                              ELSE buckets
       ELSE UNCHANGED <<tile_stack, buckets>>
    /\ rdepth' = rdepth - 1
    /\ ri' = ri + 1
    /\ UNCHANGED <<rmap, otbm, current_area, invalid_unique, rpc, notReader>>

\* after the loop: the invalid ids are sorted and logged (sorted raises
\* TypeError when None stands next to an integer), then the sector files are
\* written from the buckets
ReadFinish ==
    /\ rpc = "read" /\ ri >= Len(otbm)
    /\ rpc' = IF <<>> \in invalid_unique /\ invalid_unique # {<<>>} THEN "raised" ELSE "done"
    /\ UNCHANGED <<rmap, otbm, ri, rdepth, current_area, tile_stack, buckets, invalid_unique, notReader>>

NextReader == ReadOther \/ ReadNodeStart \/ ReadNodeEnd \/ ReadFinish

SpecReader == InitReader /\ [][NextReader]_vars

\* ---- claims about the reader ----

\* number of unescaped bytes of value b among the first n bytes after the
\* 4 identifier bytes
CountUpTo(d, b, n) == Cardinality({p \in 5..n : d[p] = b /\ ~IsEscaped(d, p)})

\* an unescaped 0xFF met while no node is open
DocUnbalancedClose(d) ==
    \E p \in 5..Len(d) :
        /\ d[p] = NODE_TERM /\ ~IsEscaped(d, p)
        /\ CountUpTo(d, NODE_INIT, p - 1) <= CountUpTo(d, NODE_TERM, p - 1)

\* a 0xFD that is the last byte of the stream
DocBadEscape(d) == Len(d) > 4 /\ d[Len(d)] = NODE_ESC /\ ~IsEscaped(d, Len(d))

\* the stream ends while nodes are still open
DocBadFraming(d) == CountUpTo(d, NODE_INIT, Len(d)) > CountUpTo(d, NODE_TERM, Len(d))

\* C18: the reader never completes a file whose framing is malformed: a
\* stray node end, an escape byte at the end of the stream or a stream that
\* ends inside open nodes makes it fail, and no sector output comes from it.
C18_MalformedFramingFails ==
    rpc = "done" =>
        ~(DocUnbalancedClose(otbm) \/ DocBadEscape(otbm) \/ DocBadFraming(otbm))

\* the three cases of C18 one by one
C18_StrayCloseFails == rpc = "done" => ~DocUnbalancedClose(otbm)
C18_StrayEscapeFails == rpc = "done" => ~DocBadEscape(otbm)
C18_OpenNodesFail == rpc = "done" => ~DocBadFraming(otbm)

\* the weaker reading: no sector record is written from a malformed file
C18_NoOutputFromMalformed ==
    (rpc = "done" /\ buckets # <<>>) =>
        ~(DocUnbalancedClose(otbm) \/ DocBadEscape(otbm) \/ DocBadFraming(otbm))

\* the type ids the items of the map refer to: the ground and the item nodes
DocReferencedIds(t) ==
    {t.items[n] : n \in 1..Len(t.items)} \cup (IF t.ground = <<>> THEN {} ELSE {t.ground[1]})

WrittenIds == UNION {Range(buckets[n].contents) : n \in 1..Len(buckets)}

\* C19: once an intact map has been converted, no sector record holds a type
\* id that is missing from the catalog, and the ids recorded as invalid are
\* exactly the type ids the map's items refer to that are missing from the
\* catalog; tile flags and coordinates add none.
C19_InvalidIdsExact ==
    (rpc = "done" /\ rmap.damage.kind = "none") =>
        /\ WrittenIds \subseteq valid_server_ids
        /\ invalid_unique = {<<id>> : id \in DocReferencedIds(rmap.tile) \ valid_server_ids}

\* the first half alone, for every input file
C19_NoInvalidWritten == WrittenIds \subseteq valid_server_ids

\* the second half for plain tiles without tile flags
C19_PlainTilesExact ==
    (rpc = "done" /\ rmap.damage.kind = "none" /\ ~rmap.tile.house /\ rmap.tile.flags = 0) =>
        invalid_unique = {<<id>> : id \in DocReferencedIds(rmap.tile) \ valid_server_ids}

\* the ids recorded for tiles without tile flags are ids of the map
C19_OnlyReferencedRecorded ==
    (rpc = "done" /\ rmap.damage.kind = "none" /\ rmap.tile.flags = 0) =>
        invalid_unique \subseteq {<<id>> : id \in DocReferencedIds(rmap.tile)}

(***************************************************************************)
(* SpecOtb: generate_rme_data.generate_items_otb, the body of the loop     *)
(* over the catalog for one item type                                     *)
(***************************************************************************)
MaxCapacity == 9

notOtb == <<codecVars, itemVars, stackVars, mapVars, spawnVars, unpackVars, mainVars, readerVars, otbFileVars, contentVars, townsVars>>

ITEM_ATTR_SERVERID == 16
ITEM_ATTR_CLIENTID == 17
ITEM_ATTR_NAME == 18
ITEM_ATTR_SPEED == 20
ITEM_ATTR_MAXITEMS == 22
FLAG_STACKABLE == 128
ITEM_GROUP_NONE == 0
ITEM_GROUP_GROUND == 1
ITEM_GROUP_CONTAINER == 2
ITEM_GROUP_RUNE == 6
ITEM_GROUP_SPLASH == 11

\* struct.pack('<H', v) and struct.pack('<I', v) for v in range
pack_H(v) == <<v % 256, (v \div 256) % 256>>
pack_I(v) == <<v % 256, (v \div 256) % 256, (v \div 65536) % 256, v \div 16777216>>

\* the symbolic flags of a catalog entry that the generator looks at
OtbFlagSets == SUBSET {"Bank", "Container", "Chest", "Splash", "Rune", "Cumulative"}

\* parse_objects_srv: Capacity is None (<<>>) when absent or unparseable,
\* else any integer int() accepts
OtbCapacities ==
    {<<>>} \cup {<<c>> : c \in ((0 - 1)..MaxCapacity) \cup {20, 65535, 65536, 70000}}

\* names "" and "box", the latter in latin-1
OtbNames == {<<>>, <<98, 111, 120>>}

OtbItems ==
    {[type_id |-> t, name |-> n, flags |-> f, disguise_target |-> dt, capacity |-> c] :
        t \in {100, 2547, 65279}, n \in OtbNames, f \in OtbFlagSets,
        dt \in {<<>>, <<0>>, <<3639>>}, c \in OtbCapacities}

\* the group chosen by the if/elif chain over the flags
ItemGroup(flags) ==
    IF "Bank" \in flags THEN ITEM_GROUP_GROUND
    ELSE IF "Container" \in flags \/ "Chest" \in flags THEN ITEM_GROUP_CONTAINER
    ELSE IF "Splash" \in flags THEN ITEM_GROUP_SPLASH
    ELSE IF "Rune" \in flags \/ "MagicEffect" \in flags THEN ITEM_GROUP_RUNE
    ELSE ITEM_GROUP_NONE

\* the volume of a container type as the specification words it: the
\* capacity whenever one is set
Volume_capacity_for_every_container(item) ==
    LET volume == IF item.capacity = <<>> THEN 8 ELSE item.capacity[1]
    IN  Max(1, Min(65535, volume))

\* volume = item.get('capacity') if 'Container' in flags else None, then the
\* default 8 and the clamp max(1, min(0xFFFF, int(volume)))
Volume(item) ==
    LET volume == IF "Container" \in item.flags /\ item.capacity # <<>>
                  THEN item.capacity[1] ELSE 8
    IN  Max(1, Min(65535, volume))

\* a client id that ignores the disguise target
ClientId_type_id_only(item) == item.type_id

\* client_id = item['disguise_target'] if it is not None else type_id
ClientId(item) ==
    IF item.disguise_target # <<>> THEN item.disguise_target[1] ELSE item.type_id

\* item_data of one entry, before escaping
OtbItemData(item) ==
    LET group == ItemGroup(item.flags)
        client_id == ClientId(item)
    IN  pack_I(IF "Cumulative" \in item.flags THEN FLAG_STACKABLE ELSE 0)
        \o <<ITEM_ATTR_SERVERID>> \o pack_H(2) \o pack_H(item.type_id)
        \o <<ITEM_ATTR_CLIENTID>> \o pack_H(2) \o pack_H(client_id)
        \o <<ITEM_ATTR_NAME>> \o pack_H(Len(item.name)) \o item.name
        \o (IF group = ITEM_GROUP_GROUND
            THEN <<ITEM_ATTR_SPEED>> \o pack_H(2) \o pack_H(150) ELSE <<>>)
        \o (IF group = ITEM_GROUP_CONTAINER
            THEN <<ITEM_ATTR_MAXITEMS>> \o pack_H(2) \o pack_H(Volume(item)) ELSE <<>>)

\* the node of one entry: start marker, group, escaped item_data, end marker
OtbNode(item) ==
    <<NODE_INIT, ItemGroup(item.flags)>> \o escape_otb_data(OtbItemData(item)) \o <<NODE_TERM>>

InitOtb ==
    /\ otb_item \in OtbItems
    /\ otb_node = <<>>
    /\ otbpc = "item"
    /\ IdleCodec /\ IdleItem /\ IdleStack /\ IdleMap /\ IdleSpawn /\ IdleUnpack /\ IdleMain /\ IdleReader /\ IdleOtbFile /\ IdleContent /\ IdleTowns

\* an entry with an empty name is skipped
SkipUnnamed ==
    /\ otbpc = "item"
    /\ otb_item.name = <<>>
    /\ otbpc' = "skipped"
    /\ UNCHANGED <<otb_item, otb_node, notOtb>>

\* the node of a named entry is appended
EmitItem ==
    /\ otbpc = "item"
    /\ otb_item.name # <<>>
    /\ otb_node' = OtbNode(otb_item)
    /\ otbpc' = "emitted"
    /\ UNCHANGED <<otb_item, notOtb>>

NextOtb == SkipUnnamed \/ EmitItem

SpecOtb == InitOtb /\ [][NextOtb]_vars

\* ---- claims about the item nodes ----

RECURSIVE Unescaped(_)
\* a node body with its escape bytes taken out
Unescaped(bs) ==
    IF bs = <<>> THEN <<>>
    ELSE IF Head(bs) = NODE_ESC /\ Len(bs) > 1 THEN <<bs[2]>> \o Unescaped(Tail(Tail(bs)))
    ELSE <<Head(bs)>> \o Unescaped(Tail(bs))

RECURSIVE AttrsFrom(_, _)
\* the attributes of an item node body from position pos on, as
\* <<type, value bytes>>: a type byte, a u16 length, the value
AttrsFrom(body, pos) ==
    IF pos + 2 > Len(body) THEN <<>>
    ELSE LET n == body[pos + 1] + body[pos + 2] * 256
         IN  <<<<body[pos], SubSeq(body, pos + 3, pos + 2 + n)>>>> \o AttrsFrom(body, pos + 3 + n)

\* the values of the MaxItems attributes of a node, each read as a u16
MaxItemsValues(node) ==
    LET attrs == AttrsFrom(Unescaped(SubSeq(node, 3, Len(node) - 1)), 5)
    IN  [n \in 1..Cardinality({m \in 1..Len(attrs) : attrs[m][1] = 22}) |->
            LET m == CHOOSE k \in 1..Len(attrs) :
                         /\ attrs[k][1] = 22
                         /\ Cardinality({j \in 1..k : attrs[j][1] = 22}) = n
            IN  attrs[m][2][1] + attrs[m][2][2] * 256]

\* C20 as stated: an emitted type with flag Container or Chest carries one
\* MaxItems attribute, the capacity when one is set and 8 otherwise, brought
\* into 1..65535; every other emitted type carries none.
C20_MaxItems ==
    otbpc = "emitted" =>
        IF "Container" \in otb_item.flags \/ "Chest" \in otb_item.flags
        THEN MaxItemsValues(otb_node) =
                 <<Clamp(IF otb_item.capacity # <<>> THEN otb_item.capacity[1] ELSE 8, 1, 65535)>>
        ELSE MaxItemsValues(otb_node) = <<>>

\* C20 amended: an emitted type of group Container (flag Container or Chest
\* and no flag Bank) carries one MaxItems attribute: the capacity brought into
\* 1..65535 when the type has the flag Container and a capacity is set, and 8
\* otherwise (a Chest without the flag Container has 8 whatever its capacity);
\* every other emitted type carries none.
C20_MaxItemsByGroup ==
    otbpc = "emitted" =>
        IF ("Container" \in otb_item.flags \/ "Chest" \in otb_item.flags)
           /\ "Bank" \notin otb_item.flags
        THEN MaxItemsValues(otb_node) =
                 <<IF "Container" \in otb_item.flags /\ otb_item.capacity # <<>>
                   THEN Clamp(otb_item.capacity[1], 1, 65535) ELSE 8>>
        ELSE MaxItemsValues(otb_node) = <<>>

\* a Chest without the flag Container and with a capacity other than 8 has
\* been emitted
C20_Witness ==
    /\ otbpc = "emitted"
    /\ "Chest" \in otb_item.flags /\ "Container" \notin otb_item.flags
    /\ "Bank" \notin otb_item.flags
    /\ otb_item.capacity = <<20>>
    /\ MaxItemsValues(otb_node) = <<8>>

\* the unescaped body of an item node: flags word and attribute blocks
NodeBody(node) == Unescaped(SubSeq(node, 3, Len(node) - 1))

\* the values of the two-byte attributes of one tag, in node order
U16Attrs(node, tag) ==
    LET attrs == AttrsFrom(NodeBody(node), 5)
    IN  {attrs[m][2][1] + attrs[m][2][2] * 256 :
            m \in {k \in 1..Len(attrs) : attrs[k][1] = tag /\ Len(attrs[k][2]) = 2}}

NumAttrs(node, tag) ==
    LET attrs == AttrsFrom(NodeBody(node), 5)
    IN  Cardinality({k \in 1..Len(attrs) : attrs[k][1] = tag})

\* the little-endian u32 at the start of the body
FlagsWord(node) ==
    LET b == NodeBody(node)
    IN  b[1] + b[2] * 256 + b[3] * 65536 + b[4] * 16777216

\* C21: the node of an emitted item type has one ServerID attribute (0x10)
\* equal to the type id, one ClientID attribute (0x11) equal to the disguise
\* target when the catalog sets one and to the type id otherwise, and a flags
\* word of 0x80 when the type has the flag Cumulative and of 0 otherwise.
C21_IdsAndFlags ==
    otbpc = "emitted" =>
        /\ NumAttrs(otb_node, 16) = 1 /\ U16Attrs(otb_node, 16) = {otb_item.type_id}
        /\ NumAttrs(otb_node, 17) = 1
        /\ U16Attrs(otb_node, 17) =
               {IF otb_item.disguise_target # <<>> THEN otb_item.disguise_target[1]
                ELSE otb_item.type_id}
        /\ FlagsWord(otb_node) = (IF "Cumulative" \in otb_item.flags THEN 128 ELSE 0)

\* a cumulative type with a disguise target, whose type id needs escaping,
\* has been emitted
C21_Witness ==
    /\ otbpc = "emitted"
    /\ "Cumulative" \in otb_item.flags
    /\ otb_item.disguise_target = <<3639>>
    /\ otb_item.type_id = 65279
    /\ U16Attrs(otb_node, 17) = {3639}

(***************************************************************************)
(* SpecOtbFile: parse_objects_srv block by block, then generate_items_otb  *)
(* over the whole dict                                                     *)
(***************************************************************************)
MaxCatalog == 3

notOtbFile == <<codecVars, itemVars, stackVars, mapVars, spawnVars, unpackVars, mainVars,
                readerVars, otbVars, contentVars, townsVars>>

\* the TypeID blocks a catalog is made of
CatalogEntries ==
    {[type_id |-> t, name |-> n, flags |-> f, disguise_target |-> <<>>, capacity |-> <<>>] :
        t \in {100, 65279}, n \in OtbNames, f \in {{}, {"Cumulative"}}}

Catalogs == UNION {[1..n -> CatalogEntries] : n \in 0..MaxCatalog}

Zeros(n) == [k \in 1..n |-> 0]

\* the 4-byte magic, the root node header, the three version fields and the
\* 128-byte CSD string 'OTB 1.0.0-7.70-cipsoft' padded with zeros
OtbHeader ==
    <<0, 0, 0, 0, NODE_INIT, 0, 0, 0, 0, 0, 1, 140, 0>>
    \o pack_I(1) \o pack_I(100) \o pack_I(1)
    \o <<79, 84, 66, 32, 49, 46, 48, 46, 48, 45, 55, 46, 55, 48, 45,
         99, 105, 112, 115, 111, 102, 116, 0>>
    \o Zeros(105)

\* every entry gets a node, named or not
Emitted_unnamed_too(item) == TRUE

\* "if not item['name']: continue"
Emitted(item) == item.name # <<>>

RECURSIVE OtbNodesFrom(_, _)
\* the loop over sorted(items.keys()) from the smallest key of ids on
OtbNodesFrom(items, ids) ==
    IF ids = {} THEN <<>>
    ELSE LET type_id == CHOOSE t \in ids : \A u \in ids : t <= u
         IN  (IF Emitted(items[type_id]) THEN OtbNode(items[type_id]) ELSE <<>>)
             \o OtbNodesFrom(items, ids \ {type_id})

\* generate_items_otb: the bytes of the file
OtbFile(items) == OtbHeader \o OtbNodesFrom(items, DOMAIN items) \o <<NODE_TERM>>

InitOtbFile ==
    /\ catalog \in Catalogs
    /\ cat_i = 0
    /\ otb_items = <<>>
    /\ otb_data = <<>>
    /\ filepc = "parse"
    /\ IdleCodec /\ IdleItem /\ IdleStack /\ IdleMap /\ IdleSpawn /\ IdleUnpack /\ IdleMain /\ IdleContent /\ IdleTowns
    /\ IdleReader /\ IdleOtb /\ IdleContent /\ IdleTowns

\* parse_objects_srv: one TypeID block is read and stored under its type id
ParseBlock ==
    /\ filepc = "parse"
    /\ cat_i < Len(catalog)
    /\ cat_i' = cat_i + 1
    /\ otb_items' = DictSet(otb_items, catalog[cat_i + 1].type_id, catalog[cat_i + 1])
    /\ UNCHANGED <<catalog, otb_data, filepc, notOtbFile>>

\* generate_items_otb over the parsed dict
GenerateItemsOtb ==
    /\ filepc = "parse"
    /\ cat_i = Len(catalog)
    /\ otb_data' = OtbFile(otb_items)
    /\ filepc' = "written"
    /\ UNCHANGED <<catalog, cat_i, otb_items, notOtbFile>>

NextOtbFile == ParseBlock \/ GenerateItemsOtb

SpecOtbFile == InitOtbFile /\ [][NextOtbFile]_vars

\* ---- claims about the items.otb file ----

\* the positions where the item nodes start: the unescaped start markers
\* after the one of the root
ItemStarts(d) == {p \in 6..Len(d) : d[p] = 254 /\ ~IsEscaped(d, p)}

\* the ServerID of the item node that starts at p: after the marker, the
\* group and the flags word come the tag 0x10, the length 2 and the id
ServerIdAt(d, p) ==
    LET b0 == ValueAt(d, p + 9)
        b1 == ValueAt(d, b0[2])
    IN  b0[1] + 256 * b1[1]

\* the name a type id has in the catalog: the one of its last block
DocName(t) ==
    LET blocks == {k \in 1..Len(catalog) : catalog[k].type_id = t}
    IN  catalog[CHOOSE k \in blocks : \A j \in blocks : j <= k].name

DocNamedIds ==
    {t \in {catalog[k].type_id : k \in 1..Len(catalog)} : DocName(t) # <<>>}

\* C22: the file holds one item node for each type id of the catalog whose
\* name (the one of its last block, when it is defined twice) is not empty,
\* none for a type with an empty name and none twice; a catalog without named
\* types gives the root alone, 154 bytes that are the same for every input.
C22_OneNodePerNamedType ==
    filepc = "written" =>
        /\ \A t \in DocNamedIds :
               Cardinality({p \in ItemStarts(otb_data) : ServerIdAt(otb_data, p) = t}) = 1
        /\ \A p \in ItemStarts(otb_data) : ServerIdAt(otb_data, p) \in DocNamedIds
        /\ DocNamedIds = {} =>
               /\ Len(otb_data) = 154
               /\ otb_data = OtbHeader \o <<255>>
               /\ NumStarts(otb_data) = 1 /\ NumEnds(otb_data) = 1

\* a catalog that defines type 65279 twice, both times with a name, and has
\* an unnamed type 100 has been written with one node
C22_Witness ==
    /\ filepc = "written"
    /\ Len(catalog) = 3
    /\ catalog[1].type_id = 65279 /\ catalog[1].name # <<>>
    /\ catalog[2].type_id = 100 /\ catalog[2].name = <<>>
    /\ catalog[3].type_id = 65279 /\ catalog[3].name # <<>>
    /\ catalog[1] # catalog[3]
    /\ Cardinality(ItemStarts(otb_data)) = 1

\* the empty catalog has been written
C22_EmptyCatalogWritten == filepc = "written" /\ catalog = <<>>

\* max(|dx|, |dy|) between a tile and a center on the same floor
RingOf(t, c) == Chebyshev(<<t[1] - c[1], t[2] - c[2]>>)

\* the walkable tiles on the floor of c that lie on the rings 0..r around c
\* and that no creature has claimed
UnclaimedWithin(c, r) ==
    {t \in walkable_tiles : t[3] = c[3] /\ RingOf(t, c) <= r /\ t \notin global_used_tiles}

\* what C23 says of one emitted monster region, for a cap of the given
\* value.  Claims are never released, so a cell that had to be claimed when
\* the region was processed is still claimed in every later state.
RegionProbedUpTo(sp, cap) ==
    /\ Len(sp.offsets) <= sp.amount
    /\ \A k \in DOMAIN sp.offsets :
           /\ k > 1 => Chebyshev(sp.offsets[k - 1]) <= Chebyshev(sp.offsets[k])
           /\ UnclaimedWithin(sp.center, Chebyshev(sp.offsets[k]) - 1) = {}
    /\ Len(sp.offsets) < sp.amount => UnclaimedWithin(sp.center, cap) = {}

\* C23: an emitted monster region holds at most amount creatures, placed ring
\* by ring in increasing r from the center; a creature stands on ring r only
\* when no walkable unclaimed cell is left on the rings below r; and a region
\* with fewer than amount creatures has left no walkable unclaimed cell on
\* any ring up to the cap 50.
C23_RingProbing ==
    \A i \in DOMAIN spawns :
        spawns[i].kind = "monster" => RegionProbedUpTo(spawns[i], 50)

\* the same with the rings 0..49 that range(50) walks
C23_RingProbingTo49 ==
    \A i \in DOMAIN spawns :
        spawns[i].kind = "monster" => RegionProbedUpTo(spawns[i], 49)

\* the place of a tile among the candidates of an NPC declared at c: 0 for
\* the declared center, 1..4 for the neighbours +x, -x, +y, -y, 3 + r for a
\* cell of ring r
DocRank(c, t) ==
    LET off == <<t[1] - c[1], t[2] - c[2]>>
    IN  CASE off = <<0, 0>> -> 0
          [] off = <<1, 0>> -> 1
          [] off = <<-1, 0>> -> 2
          [] off = <<0, 1>> -> 3
          [] off = <<0, -1>> -> 4
          [] OTHER -> 3 + Chebyshev(off)

\* the declared center, the four cardinal neighbours and the rings 2..9
DocCandidate(c, t) ==
    /\ t[3] = c[3]
    /\ \/ <<t[1] - c[1], t[2] - c[2]>> \in {<<0, 0>>, <<1, 0>>, <<-1, 0>>, <<0, 1>>, <<0, -1>>}
       \/ Chebyshev(<<t[1] - c[1], t[2] - c[2]>>) \in 2..9

\* a candidate is available when it is walkable, claimed by no creature and
\* not a region center
DocAvailable(c) ==
    {t \in walkable_tiles :
        DocCandidate(c, t) /\ t \notin global_used_tiles /\ t \notin global_spawn_centers}

\* the step emits the NPC at center x with offset (0, 0)
NpcEmittedAt(c, x) ==
    /\ Len(spawns') = Len(spawns) + 1
    /\ spawns'[Len(spawns')].kind = "npc"
    /\ spawns'[Len(spawns')].declared = c
    /\ spawns'[Len(spawns')].center = x
    /\ spawns'[Len(spawns')].offsets = <<<<0, 0>>>>
    /\ x \in walkable_tiles /\ x \notin global_used_tiles
    /\ global_used_tiles' = global_used_tiles \cup {x}

\* the step emits the NPC at the first available candidate, or emits nothing
\* when no candidate is available
NpcShifted(c) ==
    IF DocAvailable(c) = {} THEN spawns' = spawns /\ global_used_tiles' = global_used_tiles
    ELSE \E x \in DocAvailable(c) :
             /\ \A y \in DocAvailable(c) : DocRank(c, x) <= DocRank(c, y)
             /\ NpcEmittedAt(c, x)

\* C24 as stated: an NPC whose declared center is not another region's
\* center is emitted at that center; any other NPC is emitted at the first
\* available candidate, or not at all when there is none; an emitted NPC has
\* offset (0, 0) and stands on a walkable tile no other creature claims.
C24_NpcCenter ==
    [][\A c \in Cells :
         NpcStep(c) => IF c \notin global_spawn_centers THEN NpcEmittedAt(c, c)
                       ELSE NpcShifted(c)]_vars

\* C24 amended: an NPC keeps its declared center when that center is
\* available, that is walkable, claimed by no creature and not recorded as
\* the center of a region; otherwise its center is the first available
\* candidate among the neighbours +x, -x, +y, -y and then the rings 2 to 9,
\* and without an available candidate the NPC is not emitted; an emitted NPC
\* has offset (0, 0) and stands on a walkable tile no other creature claims.
C24_NpcCenterWhenAvailable ==
    [][\A c \in Cells \cup FarNpcCenters : NpcStep(c) => NpcShifted(c)]_vars

\* an NPC whose declared center is no region's center but is not walkable
\* has been emitted on a neighbour
C24_Witness ==
    \E i \in DOMAIN spawns :
        /\ spawns[i].kind = "npc"
        /\ spawns[i].declared \notin walkable_tiles
        /\ \A j \in DOMAIN spawns : j < i => spawns[j].center # spawns[i].declared
        /\ nmon = 0
        /\ spawns[i].center # spawns[i].declared

\* the number of creatures a monster line (c, amount) can place: one per
\* walkable unclaimed cell of the rings 0..49 around c, amount at most
DocPlaceable(c, amount) == Min(amount, Cardinality(UnclaimedWithin(c, MONSTER_RADIUS_STOP - 1)))

\* the step appends one monster region centered at c whose n creatures stand
\* on n distinct tiles, which are exactly the tiles the step claims
MonsterEmittedWith(c, n) ==
    /\ Len(spawns') = Len(spawns) + 1
    /\ SubSeq(spawns', 1, Len(spawns)) = spawns
    /\ LET sp == spawns'[Len(spawns')]
           tiles == {OffsetTile(c, sp.offsets[k]) : k \in DOMAIN sp.offsets}
       IN  /\ sp.kind = "monster" /\ sp.center = c
           /\ Len(sp.offsets) = n
           /\ Cardinality(tiles) = n
           /\ tiles \subseteq walkable_tiles
           /\ tiles \cap global_used_tiles = {}
           /\ global_used_tiles' = global_used_tiles \cup tiles

\* C25: a monster line for which fewer than amount cells are found is emitted
\* with exactly the creatures placed; a line for which no creature is placed is
\* not emitted and claims no tile; either way the monster loop goes on with
\* the next line; and no step of the program releases a claimed tile.
C25_PartialAndEmptyRegions ==
    [][/\ global_used_tiles \subseteq global_used_tiles'
       /\ \A c \in Cells \cup FarCenters, amount \in Amounts :
              MonsterStep(c, amount) =>
                  /\ phase' = "monsters"
                  /\ IF DocPlaceable(c, amount) = 0
                     THEN spawns' = spawns /\ global_used_tiles' = global_used_tiles
                     ELSE MonsterEmittedWith(c, DocPlaceable(c, amount))]_vars

\* C25, the example: the only walkable tile is a center at which two lines
\* with amount 1 are declared; the first is emitted, the second is skipped.
C25_SameCenterTwice ==
    [][\A c \in Cells \cup FarCenters :
          (walkable_tiles = {c} /\ MonsterStep(c, 1)) =>
              IF global_used_tiles = {} THEN MonsterEmittedWith(c, 1)
              ELSE spawns' = spawns /\ global_used_tiles' = global_used_tiles]_vars

\* of three monster lines one placed nothing and was not emitted; the first
\* emitted region asked for two creatures and got one, and a region processed
\* after it was emitted as well
C25_Witness ==
    /\ phase = "monsters" /\ nmon = 3 /\ nnpc = 0
    /\ walkable_tiles \cap FarCells = walkable_tiles
    /\ Len(spawns) = 2
    /\ spawns[1].kind = "monster" /\ spawns[1].amount = 2 /\ Len(spawns[1].offsets) = 1
    /\ spawns[2].kind = "monster" /\ spawns[2].center # spawns[1].center
    /\ Cardinality(global_used_tiles) = 2

\* the only walkable tile holds the one creature of the first of two lines
\* declared there
C25_SameCenterWitness ==
    /\ nmon = 2 /\ Len(spawns) = 1
    /\ walkable_tiles = {spawns[1].center}
    /\ spawns[1].kind = "monster" /\ spawns[1].amount = 1
    /\ global_spawn_centers = walkable_tiles

(***************************************************************************)
(* SpecContent: the text of one tile's Content={...} (what parse_sec_file  *)
(* hands to _parse_sec_content_list), the items parsed from it and the     *)
(* Item nodes written for them.  A text is a sequence of character codes.  *)
(***************************************************************************)
\* how deep the containers of a content list may nest
MaxNesting == 2

notContent == <<codecVars, itemVars, stackVars, mapVars, spawnVars, unpackVars, mainVars, readerVars, otbVars, otbFileVars, townsVars>>

\* 'String="'
KwString == <<83, 116, 114, 105, 110, 103, 61, 34>>
\* 'String='
KwStringEq == <<83, 116, 114, 105, 110, 103, 61>>
\* ' Content={'
KwContent == <<32, 67, 111, 110, 116, 101, 110, 116, 61, 123>>
\* 'Content='
KwContentEq == <<67, 111, 110, 116, 101, 110, 116, 61>>
\* 'Amount'
KwAmount == <<65, 109, 111, 117, 110, 116>>
\* 'Charges'
KwCharges == <<67, 104, 97, 114, 103, 101, 115>>

\* s[i:i+len(pat)] == pat, for the 1-based position i
MatchesAt(s, i, pat) ==
    i + Len(pat) - 1 <= Len(s) /\ SubSeq(s, i, i + Len(pat) - 1) = pat

\* s.find(pat) + 1: the 1-based position of the first occurrence, 0 if none
Find(s, pat) ==
    LET hits == {i \in 1..Len(s) : MatchesAt(s, i, pat)}
    IN  IF hits = {} THEN 0 ELSE CHOOSE i \in hits : \A j \in hits : i <= j

\* the characters str.strip() and str.split() take for white space
IsSpace(ch) == ch \in {9, 10, 11, 12, 13, 32}

\* s.strip()
Strip(s) ==
    LET keep == {i \in 1..Len(s) : ~IsSpace(s[i])}
    IN  IF keep = {} THEN <<>>
        ELSE SubSeq(s, CHOOSE i \in keep : \A j \in keep : i <= j,
                       CHOOSE i \in keep : \A j \in keep : i >= j)

\* s.rstrip(',')
RStripCommas(s) ==
    LET keep == {i \in 1..Len(s) : s[i] # 44}
    IN  IF keep = {} THEN <<>>
        ELSE SubSeq(s, 1, CHOOSE i \in keep : \A j \in keep : i >= j)

RECURSIVE SplitWords(_)
\* s.split()
SplitWords(s) ==
    LET t == Strip(s)
        gaps == {i \in 1..Len(t) : IsSpace(t[i])}
    IN  IF t = <<>> THEN <<>>
        ELSE IF gaps = {} THEN <<t>>
        ELSE LET g == CHOOSE i \in gaps : \A j \in gaps : i <= j
             IN  <<SubSeq(t, 1, g - 1)>> \o SplitWords(SubSeq(t, g + 1, Len(t)))

RECURSIVE Replace(_, _, _)
\* s.replace(pat, rep)
Replace(s, pat, rep) ==
    LET p == Find(s, pat)
    IN  IF p = 0 THEN s
        ELSE SubSeq(s, 1, p - 1) \o rep \o Replace(SubSeq(s, p + Len(pat), Len(s)), pat, rep)

\* int(text) succeeds; the texts of the content lists are decimal digits or
\* hold a character int() rejects
IsInt(s) == s # <<>> /\ \A i \in DOMAIN s : s[i] \in 48..57

RECURSIVE ToInt(_)
\* int(text)
ToInt(s) == IF s = <<>> THEN 0 ELSE 10 * ToInt(SubSeq(s, 1, Len(s) - 1)) + (s[Len(s)] - 48)

\* text.lower()
LowerText(s) == [i \in DOMAIN s |-> IF s[i] \in 65..90 THEN s[i] + 32 ELSE s[i]]

\* the dict key for a lowered key text; the content lists spell Amount and
\* Charges only
KeyOf(k) ==
    IF k = LowerText(KwAmount) THEN "amount"
    ELSE IF k = LowerText(KwCharges) THEN "charges"
    ELSE "other"

\* the branch of the loop body of _parse_sec_content_list taken at the
\* 1-based position i in the state st = [start, in_string, escape, depth,
\* segments]
ScanBranch(s, i, st) ==
    CASE st.escape -> "escaped"
      [] ~st.escape /\ st.in_string -> "in_string"
      [] ~st.escape /\ ~st.in_string /\ MatchesAt(s, i, KwString) -> "string_opens"
      [] OTHER -> "plain"

\* the position the branch goes on with
ScanNext(s, i, st) == IF ScanBranch(s, i, st) = "string_opens" THEN i + 8 ELSE i + 1

\* the state the branch leaves
ScanState(s, i, st) ==
    LET b == ScanBranch(s, i, st)
    IN  CASE b = "escaped" -> [st EXCEPT !.escape = FALSE]
          [] b = "in_string" /\ s[i] = 92 -> [st EXCEPT !.escape = TRUE]
          [] b = "in_string" /\ s[i] = 34 -> [st EXCEPT !.in_string = FALSE]
          [] b = "string_opens" -> [st EXCEPT !.in_string = TRUE]
          [] b = "plain" /\ s[i] = 123 -> [st EXCEPT !.depth = @ + 1]
          [] b = "plain" /\ s[i] = 125 -> [st EXCEPT !.depth = @ - 1]
          [] b = "plain" /\ s[i] = 44 /\ st.depth = 0 ->
                 [st EXCEPT !.start = i + 1,
                            !.segments = Append(@, Strip(SubSeq(s, st.start, i - 1)))]
          [] OTHER -> st

RECURSIVE ScanSegments(_, _, _)
\* the while loop of _parse_sec_content_list from the 1-based position i on;
\* its value is the list of segments, the one after the last comma included
ScanSegments(s, i, st) ==
    IF i <= Len(s)
    THEN ScanSegments(s, ScanNext(s, i, st), ScanState(s, i, st))
    ELSE IF st.start <= Len(s)
         THEN Append(st.segments, Strip(SubSeq(s, st.start, Len(s))))
         ELSE st.segments

\* the segments of a content text
Segments(s) ==
    ScanSegments(s, 1, [start |-> 1, in_string |-> FALSE, escape |-> FALSE, depth |-> 0,
                        segments |-> <<>>])

RECURSIVE BraceEnd(_, _, _)
\* "while i < len(spec) and depth > 0": the 1-based position the loop stops at
BraceEnd(spec, i, depth) ==
    IF i > Len(spec) \/ depth <= 0 THEN i
    ELSE BraceEnd(spec, i + 1,
                  IF spec[i] = 123 THEN depth + 1
                  ELSE IF spec[i] = 125 THEN depth - 1 ELSE depth)

\* the Content={...} step of _append_item_from_spec:
\* <<nested_content_str or none, the spec that is left>>, none being <<>> and
\* a nested text t being <<t>>
ExtractContent(spec) ==
    LET p == Find(spec, KwContent)
        stop == BraceEnd(spec, p + 10, 1)
    IN  IF p = 0 THEN <<<<>>, spec>>
        ELSE <<<<SubSeq(spec, p + 10, stop - 2)>>, Strip(SubSeq(spec, 1, p - 1))>>

RECURSIVE StringEnd(_, _, _)
\* the loop over rest of the String="..." step, i and end counted from 0 as
\* in the code: <<end, i>> when the loop is left
StringEnd(rest, i, end) ==
    IF i >= Len(rest) THEN <<end, i>>
    ELSE IF rest[i + 1] = 92 THEN StringEnd(rest, i + 2, i + 2)
    ELSE IF rest[i + 1] = 34 /\ (i = 0 \/ rest[i] # 92) THEN <<i, i>>
    ELSE StringEnd(rest, i + 1, end)

\* the String="..." step: <<string_val or none, the spec that is left>>
ExtractString(spec) ==
    LET q == Find(spec, KwString)
        rest == SubSeq(spec, q + 8, Len(spec))
        left == StringEnd(rest, 0, 0)
        end == IF left[1] = 0 /\ left[2] > 0 THEN left[2] ELSE left[1]
        raw == SubSeq(rest, 1, Min(end, Len(rest)))
    IN  IF q = 0 THEN <<<<>>, spec>>
        ELSE <<<<Replace(Replace(raw, <<92, 110>>, <<10>>), <<92, 34>>, <<34>>)>>,
               RStripCommas(Strip(SubSeq(spec, 1, q - 1)))>>

\* one iteration of "for part in parts[1:]"
ApplyPartText(item, word) ==
    LET eq == Find(word, <<61>>)
        key == LowerText(SubSeq(word, 1, eq - 1))
        value == SubSeq(word, eq + 1, Len(word))
    IN  IF eq = 0 \/ Find(word, KwStringEq) # 0 \/ Find(word, KwContentEq) # 0 THEN item
        ELSE IF ~IsInt(value) THEN item
        ELSE ApplyKey(item, KeyOf(key), ToInt(value))

RECURSIVE ApplyParts(_, _)
ApplyParts(item, words) ==
    IF words = <<>> THEN item
    ELSE ApplyParts(ApplyPartText(item, Head(words)), Tail(words))

RECURSIVE parse_sec_content_list(_)
RECURSIVE append_item_from_spec(_, _)
RECURSIVE AppendSegments(_, _)

\* _append_item_from_spec: the list with the item of the spec appended, or the
\* list as it was when the spec gives no item
append_item_from_spec(list, spec) ==
    LET c == ExtractContent(spec)
        t == ExtractString(c[2])
        parts == SplitWords(t[2])
        d0 == [x \in {"id"} |-> ToInt(parts[1])]
        d1 == IF t[1] # <<>> THEN DictSet(d0, "text", t[1][1]) ELSE d0
        d2 == IF c[1] # <<>>
              THEN DictSet(d1, "content", parse_sec_content_list(c[1][1])) ELSE d1
    IN  IF parts = <<>> THEN list
        ELSE IF ~IsInt(parts[1]) THEN list
        ELSE Append(list, ApplyParts(d2, Tail(parts)))

\* "for spec in segments: if spec: _append_item_from_spec(items, spec)"
AppendSegments(list, segments) ==
    IF segments = <<>> THEN list
    ELSE AppendSegments(IF Head(segments) # <<>>
                        THEN append_item_from_spec(list, Head(segments)) ELSE list,
                        Tail(segments))

\* _parse_sec_content_list
parse_sec_content_list(s) == AppendSegments(<<>>, Segments(s))

(***************************************************************************)
(* The content lists tried.  An item spec is described by its type id, the *)
(* order of its pieces ("K" for Amount=5, "S" for the String, "C" for the  *)
(* Content), its text and its nested specs, and is spelled as the grammar  *)
(* of the sector files spells it.                                          *)
(***************************************************************************)
RECURSIVE Dec(_)
\* the decimal digits of n
Dec(n) == IF n < 10 THEN <<48 + n>> ELSE Dec(n \div 10) \o <<48 + (n % 10)>>

RECURSIVE EscapeText(_)
\* a text as it stands between the quotes: \ as \\ and " as \"
EscapeText(t) ==
    IF t = <<>> THEN <<>>
    ELSE (IF Head(t) \in {34, 92} THEN <<92, Head(t)>> ELSE <<Head(t)>>) \o EscapeText(Tail(t))

RECURSIVE RenderSpec(_)
RECURSIVE RenderPieces(_, _)
RECURSIVE RenderList(_)

\* the pieces of the spec t that are named in order
RenderPieces(t, order) ==
    IF order = <<>> THEN <<>>
    ELSE (CASE Head(order) = "K" -> <<32>> \o KwAmount \o <<61>> \o Dec(5)
            [] Head(order) = "S" -> <<32>> \o KwString \o EscapeText(t.text) \o <<34>>
            [] Head(order) = "C" -> KwContent \o RenderList(t.kids) \o <<125>>)
         \o RenderPieces(t, Tail(order))

RenderSpec(t) == Dec(t.id) \o RenderPieces(t, t.order)

\* the specs of a list, separated by ", "
RenderList(list) ==
    IF list = <<>> THEN <<>>
    ELSE IF Len(list) = 1 THEN RenderSpec(list[1])
    ELSE RenderSpec(list[1]) \o <<44, 32>> \o RenderList(Tail(list))

SpecOf(id, order, text, kids) == [id |-> id, order |-> order, text |-> text, kids |-> kids]

\* the texts of the strings: a,b   ",\   }   {
SpecTexts == {<<97, 44, 98>>, <<34, 44, 92>>, <<125>>, <<123>>}

Coin == SpecOf(3031, <<>>, <<>>, <<>>)

\* specs without nested content
LeafSpecs ==
    {Coin, SpecOf(3031, <<"K">>, <<>>, <<>>)}
    \cup {SpecOf(2816, <<"S">>, t, <<>>) : t \in SpecTexts}

RECURSIVE ContainerSpecs(_)
\* containers nested at most d deep
ContainerSpecs(d) ==
    IF d = 0 THEN {}
    ELSE {SpecOf(2547, <<"C">>, <<>>, <<a, Coin>>) : a \in LeafSpecs \cup ContainerSpecs(d - 1)}

\* the orders in which two or three of the pieces can follow the type id
PieceOrders ==
    {<<"K", "S">>, <<"S", "K">>, <<"K", "C">>, <<"C", "K">>, <<"S", "C">>, <<"C", "S">>,
     <<"K", "S", "C">>, <<"K", "C", "S">>, <<"S", "K", "C">>, <<"S", "C", "K">>,
     <<"C", "K", "S">>, <<"C", "S", "K">>}

\* one spec with the same pieces in every order: text x, content one coin
OrderedSpecs == {SpecOf(2547, o, <<120>>, <<Coin>>) : o \in PieceOrders}

SecSpecChoices == LeafSpecs \cup ContainerSpecs(MaxNesting) \cup OrderedSpecs

\* the content lists: one spec, or a spec next to a spec without content
ContentLists ==
    {<<t>> : t \in SecSpecChoices}
    \cup {<<t, l>> : t \in SecSpecChoices, l \in LeafSpecs}
    \cup {<<l, t>> : l \in LeafSpecs, t \in SecSpecChoices}

InitContent ==
    /\ sec_specs \in ContentLists
    /\ content_str = RenderList(sec_specs)
    /\ content_items = <<>>
    /\ content_buf = <<>>
    /\ contentpc = "start"
    /\ IdleCodec /\ IdleItem /\ IdleStack /\ IdleMap /\ IdleSpawn /\ IdleUnpack /\ IdleMain /\ IdleReader /\ IdleOtb /\ IdleOtbFile /\ IdleTowns

\* parse_sec_file: "items = _parse_sec_content_list(content_str, context)"
ParseContent ==
    /\ contentpc = "start"
    /\ content_items' = parse_sec_content_list(content_str)
    /\ contentpc' = "parsed"
    /\ UNCHANGED <<sec_specs, content_str, content_buf, notContent>>

\* convert_map_to_otbm: "_write_otbm_item_recursive(writer, item_data, counters)"
\* for every item of the list, each on a buffer of its own
WriteContent ==
    /\ contentpc = "parsed"
    /\ content_buf' = [i \in DOMAIN content_items |->
                           write_otbm_item_recursive(<<>>, content_items[i])]
    /\ contentpc' = "written"
    /\ UNCHANGED <<sec_specs, content_str, content_items, notContent>>

NextContent == ParseContent \/ WriteContent

SpecContent == InitContent /\ [][NextContent]_vars

RECURSIVE ItemShape(_)
\* the type id of a parsed item and the shapes of its children, in order
ItemShape(item) ==
    <<item.id, [i \in DOMAIN ContentList(item) |-> ItemShape(ContentList(item)[i])]>>

RECURSIVE DocShape(_)
\* the type id of an item spec and the shapes of its nested specs, in order
DocShape(t) ==
    <<t.id, IF \E k \in DOMAIN t.order : t.order[k] = "C"
            THEN [i \in DOMAIN t.kids |-> DocShape(t.kids[i])]
            ELSE <<>>>>

\* every item spec of the list gave one item, with its nested specs as its
\* children, recursively
ShapesKept ==
    /\ Len(content_items) = Len(sec_specs)
    /\ \A i \in DOMAIN sec_specs : ItemShape(content_items[i]) = DocShape(sec_specs[i])

\* the node written for every item holds the nodes of its children
ChildrenNested ==
    \A i \in DOMAIN content_buf : Tokens(content_buf[i]) = DocItemNode(content_items[i])

\* 2547 Content={3031, 3031}
DocExample == <<SpecOf(2547, <<"C">>, <<>>, <<Coin, Coin>>)>>

\* one Item node of type 2547 that holds two Item nodes of type 3031
DocExampleNodes ==
    <<NodeStart, 6, 243, 9,
          NodeStart, 6, 215, 11, NodeEnd,
          NodeStart, 6, 215, 11, NodeEnd,
      NodeEnd>>

\* C26: the content list is split at the commas outside every String="..."
\* and outside every nested Content={...}, so that every item spec gives one
\* item and every nested list the ordered children of its item, recursively;
\* the writer emits the children as Item nodes inside the Item node of their
\* parent; 2547 Content={3031, 3031} gives one node 2547 holding two nodes 3031.
C26_ContentSplit ==
    /\ contentpc \in {"parsed", "written"} => ShapesKept
    /\ contentpc = "written" => ChildrenNested
    /\ (contentpc = "written" /\ sec_specs = DocExample) =>
           content_buf = <<content_buf[1]>> /\ Tokens(content_buf[1]) = DocExampleNodes

RECURSIVE HasClosingBraceText(_)
\* a String of the spec or of a spec nested in it holds the character }
HasClosingBraceText(t) ==
    \/ \E i \in DOMAIN t.text : t.text[i] = 125
    \/ \E i \in DOMAIN t.kids : HasClosingBraceText(t.kids[i])

\* a String nested inside a Content={...} holds the character }
BraceTextNested(t) == \E i \in DOMAIN t.kids : HasClosingBraceText(t.kids[i])

\* the same for the content lists in which no nested String holds a }
C26_ContentSplitWithoutNestedBrace ==
    (\A i \in DOMAIN sec_specs : ~BraceTextNested(sec_specs[i])) => C26_ContentSplit

\* the example of C26 has been written
C26_ExampleWritten == contentpc = "written" /\ sec_specs = DocExample

HasPiece(t, piece) == \E k \in DOMAIN t.order : t.order[k] = piece

\* the parsed item reflects every piece of the spec t
Reflected(item, t) ==
    /\ item.id = t.id
    /\ HasPiece(t, "K") => Has(item, "count") /\ item.count = 5
    /\ HasPiece(t, "S") => Has(item, "text") /\ item.text = t.text
    /\ HasPiece(t, "C") => Has(item, "content") /\ ItemShape(item) = DocShape(t)

\* C27: an item spec made of a type id, Key=Value assignments, a String and a
\* Content gives an item that reflects the assignments, the string and the
\* nested content, in whatever order the pieces stand in the spec.
C27_PiecesInAnyOrder ==
    contentpc \in {"parsed", "written"} =>
        \A i \in DOMAIN sec_specs :
            sec_specs[i] \in OrderedSpecs =>
                /\ Len(content_items) = Len(sec_specs)
                /\ Reflected(content_items[i], sec_specs[i])

\* the pieces stand in the order assignments, String, Content
CanonicalOrder(o) == o \in {<<"K", "S">>, <<"K", "C">>, <<"S", "C">>, <<"K", "S", "C">>}

\* the same for the specs whose pieces stand in that order
C27_PiecesInCanonicalOrder ==
    contentpc \in {"parsed", "written"} =>
        \A i \in DOMAIN sec_specs :
            (sec_specs[i] \in OrderedSpecs /\ CanonicalOrder(sec_specs[i].order)) =>
                /\ Len(content_items) = Len(sec_specs)
                /\ Reflected(content_items[i], sec_specs[i])

\* a spec with all three pieces in the canonical order has been parsed
C27_CanonicalParsed ==
    /\ contentpc = "parsed"
    /\ sec_specs = <<SpecOf(2547, <<"K", "S", "C">>, <<120>>, <<Coin>>)>>

(***************************************************************************)
(* SpecTowns: parse_temples_from_moveuse over the lines of the section     *)
(* BEGIN "Hometeleporters", then parse_map_dat.  A line of the section is  *)
(* given by what the code reads from it: the town name between "Home " and *)
(* the label, the label, and the coordinates of SetStart.                  *)
(***************************************************************************)
\* how many lines of the section are read
MaxHomeLines == 3

notTowns == <<codecVars, itemVars, stackVars, mapVars, spawnVars, unpackVars, mainVars, readerVars, otbVars, otbFileVars, contentVars>>

TownNames == {"Thais", "Port Hope"}

\* name.replace(' ', '')
NoSpaces(name) == IF name = "Port Hope" THEN "PortHope" ELSE name

\* the coordinates the lines of the section give
HomePositions == {<<32369, 32241, 7>>, <<32595, 32745, 7>>}

\* the labels: (1), (?), and one that is neither
HomeLabels == {"(1)", "(?)", "(2)"}

HomeLines == [name : TownNames, label : HomeLabels, pos : HomePositions]

\* the Mark of a town in map.dat
MarkOf(name) == IF name = "Thais" THEN <<32369, 32215, 7>> ELSE <<32632, 32743, 7>>

\* map.dat: the Depot lines as (depot_id, name), and the names with a Mark line
MapDatChoices ==
    {[depots |-> <<<<0, "Thais">>, <<7, "Port Hope">>>>, marked |-> TownNames],
     [depots |-> <<<<7, "Port Hope">>, <<0, "Thais">>>>, marked |-> {"Thais"}],
     [depots |-> <<<<0, "Thais">>, <<7, "Port Hope">>>>, marked |-> {}]}

\* dict.get(key): <<>> for None, <<v>> for the value v
DictGet(d, k) == IF Has(d, k) THEN <<d[k]>> ELSE <<>>

InitTowns ==
    /\ home_lines = <<>>
    /\ temples = <<>>
    /\ map_dat \in MapDatChoices
    /\ town_list = <<>>
    /\ townpc = "moveuse"
    /\ IdleCodec /\ IdleItem /\ IdleStack /\ IdleMap /\ IdleSpawn /\ IdleUnpack /\ IdleMain /\ IdleReader /\ IdleOtb /\ IdleOtbFile /\ IdleContent

\* the body of "for line in f" for one line of the section that has a
\* SetStart and a "Home ..." label
TempleLine(d, line) ==
    IF line.label \notin {"(1)", "(?)"} THEN d
    ELSE IF ~Has(d, line.name) \/ line.label = "(1)"
         THEN DictSet(DictSet(d, line.name, line.pos), NoSpaces(line.name), line.pos)
         ELSE d

\* one more line of the section is read
ReadHomeLine ==
    \E line \in HomeLines :
        /\ townpc = "moveuse"
        /\ Len(home_lines) < MaxHomeLines
        /\ home_lines' = Append(home_lines, line)
        /\ temples' = TempleLine(temples, line)
        /\ UNCHANGED <<map_dat, town_list, townpc, notTowns>>

\* the marks dict of parse_map_dat
MarksDict ==
    [k \in map_dat.marked \cup {NoSpaces(n) : n \in map_dat.marked} |->
        MarkOf(CHOOSE n \in map_dat.marked : k \in {n, NoSpaces(n)})]

\* "a or b" of two dict.get results
OrElse(a, b) == IF a # <<>> THEN a ELSE b

\* the position of a depot's town: <<>> when there is none
TownPos(name) ==
    LET fromMoveuse == IF DOMAIN temples # {}
                       THEN OrElse(DictGet(temples, name), DictGet(temples, NoSpaces(name)))
                       ELSE <<>>
    IN  IF fromMoveuse # <<>> THEN fromMoveuse
        ELSE OrElse(DictGet(MarksDict, name), DictGet(MarksDict, NoSpaces(name)))

RECURSIVE TownsFrom(_)
\* "for depot_id, name in depots: ..."
TownsFrom(depots) ==
    IF depots = <<>> THEN <<>>
    ELSE LET pos == TownPos(Head(depots)[2])
         IN  (IF pos = <<>> THEN <<>>
              ELSE <<[id |-> Head(depots)[1] + 1, name |-> Head(depots)[2],
                      x |-> pos[1][1], y |-> pos[1][2], z |-> pos[1][3]]>>)
             \o TownsFrom(Tail(depots))

\* the section ends and parse_map_dat runs
ParseMapDat ==
    /\ townpc = "moveuse"
    /\ town_list' = TownsFrom(map_dat.depots)
    /\ townpc' = "done"
    /\ UNCHANGED <<home_lines, temples, map_dat, notTowns>>

NextTowns == ReadHomeLine \/ ParseMapDat

SpecTowns == InitTowns /\ [][NextTowns]_vars

\* the lines of the section for a town with a label
LinesFor(name, label) ==
    {i \in DOMAIN home_lines : home_lines[i].name = name /\ home_lines[i].label = label}

LeastOf(S) == CHOOSE i \in S : \A j \in S : i <= j
GreatestOf(S) == CHOOSE i \in S : \A j \in S : i >= j

\* the temple of a town as C28 has it: the first line labelled (1), else the
\* first line labelled (?), else the Mark; <<>> when there is none
DocTemple(name) ==
    IF LinesFor(name, "(1)") # {} THEN <<home_lines[LeastOf(LinesFor(name, "(1)"))].pos>>
    ELSE IF LinesFor(name, "(?)") # {} THEN <<home_lines[LeastOf(LinesFor(name, "(?)"))].pos>>
    ELSE IF name \in map_dat.marked THEN <<MarkOf(name)>>
    ELSE <<>>

\* the same with the last line labelled (1)
LastOneTemple(name) ==
    IF LinesFor(name, "(1)") # {} THEN <<home_lines[GreatestOf(LinesFor(name, "(1)"))].pos>>
    ELSE DocTemple(name)

\* the towns are the depots that have the temple, in the order of the depots,
\* each with id = depot_id + 1 and that temple
TownsAre(depots, Temple(_)) ==
    LET kept == {i \in DOMAIN depots : Temple(depots[i][2]) # <<>>}
    IN  /\ Len(town_list) = Cardinality(kept)
        /\ \A i \in kept :
               LET k == Cardinality({j \in kept : j <= i})
                   pos == Temple(depots[i][2])[1]
               IN  town_list[k] = [id |-> depots[i][1] + 1, name |-> depots[i][2],
                                   x |-> pos[1], y |-> pos[2], z |-> pos[3]]

\* C28: every depot gives a town with id = depot_id + 1 whose temple is taken
\* from the Hometeleporters section when the section has a line for the town
\* and from the Mark of map.dat otherwise; a town with neither is omitted; a
\* line labelled (1) is preferred over one labelled (?), and of several lines
\* with the same label the first is used.
C28_TownTemples == townpc = "done" => TownsAre(map_dat.depots, DocTemple)

\* the same with the last of the lines labelled (1)
C28_TownTemplesLastOne == townpc = "done" => TownsAre(map_dat.depots, LastOneTemple)

\* a (?) line, then a (1) line for the same town has been read, another town
\* has its Mark only, and the towns are written
C28_PreferredAndFallback ==
    /\ townpc = "done"
    /\ Len(home_lines) = 2
    /\ home_lines[1].name = "Thais" /\ home_lines[1].label = "(?)"
    /\ home_lines[2].name = "Thais" /\ home_lines[2].label = "(1)"
    /\ home_lines[1].pos # home_lines[2].pos
    /\ map_dat.marked = TownNames
    /\ Len(town_list) = 2

(***************************************************************************)
(* SpecTrip: convert_otbm_to_secs over a file that convert_map_to_otbm     *)
(* wrote: the tiles of one or two tile lines, one of them at a position    *)
(* that houses.dat gives to a house, with items nested in containers.      *)
(***************************************************************************)
\* how many tile lines the map is written from
MaxTripTiles == 2

\* sector and local coordinates of the tile lines: (256, 5, 7) is the tile of
\* house 3, (255, 5, 7) ends an area, (290, 35, 7) lies inside one
TripPositions == {<<8, 0, 7, 0, 5>>, <<7, 0, 7, 31, 5>>, <<9, 1, 7, 2, 3>>}

\* map_flags and parsed Content of the tile lines: one item; three items, one
\* of a type the catalog lacks; a container holding two items; an item of a
\* type the catalog lacks on a tile flagged ProtectionZone, NoLogout
TripContents ==
    <<[map_flags |-> 0, items |-> <<[id |-> 100]>>],
      [map_flags |-> 1, items |-> <<[id |-> 254], [id |-> 777], [id |-> 100]>>],
      [map_flags |-> 0, items |-> <<[id |-> 254, content |-> <<[id |-> 100], [id |-> 777]>>]>>],
      [map_flags |-> 9, items |-> <<[id |-> 777]>>]>>

TripTile(p, c) ==
    [sx |-> p[1], sy |-> p[2], z |-> p[3], lx |-> p[4], ly |-> p[5],
     map_flags |-> TripContents[c].map_flags, items |-> TripContents[c].items]

RECURSIVE TripSectors(_)
\* the tile lists of n tile lines at different positions
TripSectors(n) ==
    IF n = 0 THEN {<<>>}
    ELSE {Append(S, TripTile(p, c)) :
             S \in TripSectors(n - 1),
             p \in TripPositions,
             c \in DOMAIN TripContents}

AtDifferentPositions(S) ==
    \A i, j \in DOMAIN S :
        i # j => <<S[i].sx, S[i].sy, S[i].lx, S[i].ly>> # <<S[j].sx, S[j].sy, S[j].lx, S[j].ly>>

TripMaps ==
    {S \in UNION {TripSectors(n) : n \in 1..MaxTripTiles} : AtDifferentPositions(S)}

\* the file convert_map_to_otbm writes for the tile lines, without towns
TripFile(S) == <<79, 84, 66, 77>> \o MapBytes(GroupFrom(<<>>, S, 1), <<>>)

InitTrip ==
    /\ rmap \in {[sectors |-> S] : S \in TripMaps}
    /\ otbm = TripFile(rmap.sectors)
    /\ ri = 4 /\ rdepth = 0
    /\ current_area = <<>> /\ tile_stack = <<>> /\ buckets = <<>>
    /\ invalid_unique = {}
    /\ rpc = "read"
    /\ IdleCodec /\ IdleItem /\ IdleStack /\ IdleMap /\ IdleSpawn /\ IdleUnpack /\ IdleMain /\ IdleOtb /\ IdleOtbFile /\ IdleContent /\ IdleTowns

SpecTrip == InitTrip /\ [][NextReader]_vars

\* the tile line is written as a HouseTile node
IsHouseTile(t) == <<t.sx * SECTOR_SIZE + t.lx, t.sy * SECTOR_SIZE + t.ly, t.z>> \in DOMAIN HousePositions

\* the sector records written for the position of the tile line t
RecordsAt(t) ==
    {n \in DOMAIN buckets :
        /\ buckets[n].sx = t.sx /\ buckets[n].sy = t.sy /\ buckets[n].z = <<t.z>>
        /\ buckets[n].lx = t.lx /\ buckets[n].ly = t.ly}

RECURSIVE ValidIdsOf(_)
\* the catalog-valid type ids of a list of items, in order
ValidIdsOf(items) ==
    IF items = <<>> THEN <<>>
    ELSE (IF Head(items).id \in valid_server_ids THEN <<Head(items).id>> ELSE <<>>)
         \o ValidIdsOf(Tail(items))

\* the catalog-valid type ids of the direct child Item nodes of the tile node
\* written for t, in stream order
DocDirectIds(t) == ValidIdsOf(ItemsToWrite(t.items, MapStackPriority))

\* C29: every tile node the map writer emits, Tile or HouseTile, gives one
\* sector record at the sector (abs_x div 32, abs_y div 32, z) and the local
\* coordinates (abs_x mod 32, abs_y mod 32) of the original tile; stated for
\* the tiles that hold an item of a catalog type.
C29_EveryTileRecorded ==
    rpc = "done" =>
        \A i \in DOMAIN rmap.sectors :
            DocDirectIds(rmap.sectors[i]) # <<>> =>
                Cardinality(RecordsAt(rmap.sectors[i])) = 1

\* the same for the tiles written as Tile nodes
C29_PlainTilesRecorded ==
    rpc = "done" =>
        \A i \in DOMAIN rmap.sectors :
            (DocDirectIds(rmap.sectors[i]) # <<>> /\ ~IsHouseTile(rmap.sectors[i])) =>
                Cardinality(RecordsAt(rmap.sectors[i])) = 1

\* every record stands at the position of a tile line
C29_RecordsAtTiles ==
    \A n \in DOMAIN buckets : \E i \in DOMAIN rmap.sectors : n \in RecordsAt(rmap.sectors[i])

\* a map with a plain tile inside an area and a house tile has been converted
C29_TwoTilesConverted ==
    /\ rpc = "done"
    /\ Len(rmap.sectors) = 2
    /\ IsHouseTile(rmap.sectors[1]) /\ rmap.sectors[2].sx = 9
    /\ Len(buckets) = 1

\* C30: the sector record of a tile lists exactly the catalog-valid type ids
\* of the direct child Item nodes of the tile, in stream order; items nested
\* in a container are not listed, and no item node that follows the end of a
\* tile is listed for that tile.
C30_DirectItemsOnly ==
    rpc = "done" =>
        \A i \in DOMAIN rmap.sectors :
            \A n \in RecordsAt(rmap.sectors[i]) :
                buckets[n].contents = DocDirectIds(rmap.sectors[i])

\* an item of the tile line holds nested items
HasContainer(t) == \E k \in DOMAIN t.items : ContentList(t.items[k]) # <<>>

\* the same for the tiles without a container
C30_FlatTilesExact ==
    rpc = "done" =>
        \A i \in DOMAIN rmap.sectors :
            ~HasContainer(rmap.sectors[i]) =>
                \A n \in RecordsAt(rmap.sectors[i]) :
                    buckets[n].contents = DocDirectIds(rmap.sectors[i])

\* two plain tiles with three and one items have been converted
C30_TwoFlatTilesConverted ==
    /\ rpc = "done"
    /\ Len(rmap.sectors) = 2 /\ Len(buckets) = 2
    /\ Len(rmap.sectors[1].items) = 3 /\ Len(buckets[1].contents) = 2
    /\ ~HasContainer(rmap.sectors[2])

====
